---- MODULE Spec2Model ----
(***************************************************************************)
(* Pricing resolution pipeline of the awspricing backend:                  *)
(*   backend/app/region_mapping.py   the rate table                        *)
(*   backend/app/public_pricing.py   the public price list client          *)
(*   backend/app/pricing_resolver.py the resolver and the authenticated    *)
(*                                   (GetProducts) client                  *)
(*                                                                         *)
(* Conventions of the model                                                *)
(*   - A Python str on which the code does character work (strip, lower,   *)
(*     "in", startswith, concatenation) is a sequence of one-character     *)
(*     strings; "" is <<>>.                                                *)
(*   - An optional value (x | None) is a sequence of length at most one:   *)
(*     None is <<>>, a value v is <<v>>.  A str | None whose only use is   *)
(*     a truth test is the character sequence itself, None being <<>>.     *)
(*   - A message built by an f-string is the sequence of its pieces.       *)
(*   - A dict whose iteration order matters is a sequence in that order.   *)
(*   - Prices and volumes are integers: a price n stands for n/1000 USD,   *)
(*     float("inf") is Inf.                                                *)
(***************************************************************************)
EXTENDS Integers, Sequences, FiniteSets, TLC

None == <<>>
Some(v) == <<v>>

(***************************************************************************)
(* str operations                                                          *)
(***************************************************************************)
UpperChars == <<"A","B","C","D","E","F","G","H","I","J","K","L","M",
                "N","O","P","Q","R","S","T","U","V","W","X","Y","Z">>
LowerChars == <<"a","b","c","d","e","f","g","h","i","j","k","l","m",
                "n","o","p","q","r","s","t","u","v","w","x","y","z">>

LowerChar(c) ==
    IF \E i \in 1..Len(UpperChars) : UpperChars[i] = c
    THEN LowerChars[CHOOSE i \in 1..Len(UpperChars) : UpperChars[i] = c]
    ELSE c

\* str.lower()
Lower(s) == [i \in 1..Len(s) |-> LowerChar(s[i])]

IsSpace(c) == c \in {" ", "\t", "\n"}

RECURSIVE LStrip(_)
LStrip(s) == IF s # <<>> /\ IsSpace(Head(s)) THEN LStrip(Tail(s)) ELSE s

RECURSIVE RStrip(_)
RStrip(s) ==
    IF s # <<>> /\ IsSpace(s[Len(s)]) THEN RStrip(SubSeq(s, 1, Len(s) - 1)) ELSE s

\* str.strip()
Strip(s) == RStrip(LStrip(s))

\* sub in s
Contains(s, sub) ==
    \E i \in 0..(Len(s) - Len(sub)) : SubSeq(s, i + 1, i + Len(sub)) = sub

\* s.startswith(p)
StartsWith(s, p) == Len(s) >= Len(p) /\ SubSeq(s, 1, Len(p)) = p

(***************************************************************************)
(* region_mapping.py                                                       *)
(***************************************************************************)
\* The table as a sequence of <<region code, location>> pairs, in source order.
REGION_TO_LOCATION == <<
    \* us-east-1 -> US East (N. Virginia)
    <<<<"u","s","-","e","a","s","t","-","1">>,
      <<"U","S"," ","E","a","s","t"," ","(","N","."," ","V","i","r","g","i","n","i","a",")">>>>,
    \* us-east-2 -> US East (Ohio)
    <<<<"u","s","-","e","a","s","t","-","2">>,
      <<"U","S"," ","E","a","s","t"," ","(","O","h","i","o",")">>>>,
    \* us-west-1 -> US West (N. California)
    <<<<"u","s","-","w","e","s","t","-","1">>,
      <<"U","S"," ","W","e","s","t"," ","(","N","."," ","C","a","l","i","f","o","r","n","i","a",")">>>>,
    \* us-west-2 -> US West (Oregon)
    <<<<"u","s","-","w","e","s","t","-","2">>,
      <<"U","S"," ","W","e","s","t"," ","(","O","r","e","g","o","n",")">>>>,
    \* af-south-1 -> Africa (Cape Town)
    <<<<"a","f","-","s","o","u","t","h","-","1">>,
      <<"A","f","r","i","c","a"," ","(","C","a","p","e"," ","T","o","w","n",")">>>>,
    \* ap-east-1 -> Asia Pacific (Hong Kong)
    <<<<"a","p","-","e","a","s","t","-","1">>,
      <<"A","s","i","a"," ","P","a","c","i","f","i","c"," ","(","H","o","n","g"," ","K","o","n","g",")">>>>,
    \* ap-south-1 -> Asia Pacific (Mumbai)
    <<<<"a","p","-","s","o","u","t","h","-","1">>,
      <<"A","s","i","a"," ","P","a","c","i","f","i","c"," ","(","M","u","m","b","a","i",")">>>>,
    \* ap-south-2 -> Asia Pacific (Hyderabad)
    <<<<"a","p","-","s","o","u","t","h","-","2">>,
      <<"A","s","i","a"," ","P","a","c","i","f","i","c"," ","(","H","y","d","e","r","a","b","a","d",")">>>>,
    \* ap-southeast-1 -> Asia Pacific (Singapore)
    <<<<"a","p","-","s","o","u","t","h","e","a","s","t","-","1">>,
      <<"A","s","i","a"," ","P","a","c","i","f","i","c"," ","(","S","i","n","g","a","p","o","r","e",")">>>>,
    \* ap-southeast-2 -> Asia Pacific (Sydney)
    <<<<"a","p","-","s","o","u","t","h","e","a","s","t","-","2">>,
      <<"A","s","i","a"," ","P","a","c","i","f","i","c"," ","(","S","y","d","n","e","y",")">>>>,
    \* ap-southeast-3 -> Asia Pacific (Jakarta)
    <<<<"a","p","-","s","o","u","t","h","e","a","s","t","-","3">>,
      <<"A","s","i","a"," ","P","a","c","i","f","i","c"," ","(","J","a","k","a","r","t","a",")">>>>,
    \* ap-southeast-4 -> Asia Pacific (Melbourne)
    <<<<"a","p","-","s","o","u","t","h","e","a","s","t","-","4">>,
      <<"A","s","i","a"," ","P","a","c","i","f","i","c"," ","(","M","e","l","b","o","u","r","n","e",")">>>>,
    \* ap-northeast-1 -> Asia Pacific (Tokyo)
    <<<<"a","p","-","n","o","r","t","h","e","a","s","t","-","1">>,
      <<"A","s","i","a"," ","P","a","c","i","f","i","c"," ","(","T","o","k","y","o",")">>>>,
    \* ap-northeast-2 -> Asia Pacific (Seoul)
    <<<<"a","p","-","n","o","r","t","h","e","a","s","t","-","2">>,
      <<"A","s","i","a"," ","P","a","c","i","f","i","c"," ","(","S","e","o","u","l",")">>>>,
    \* ap-northeast-3 -> Asia Pacific (Osaka)
    <<<<"a","p","-","n","o","r","t","h","e","a","s","t","-","3">>,
      <<"A","s","i","a"," ","P","a","c","i","f","i","c"," ","(","O","s","a","k","a",")">>>>,
    \* ca-central-1 -> Canada (Central)
    <<<<"c","a","-","c","e","n","t","r","a","l","-","1">>,
      <<"C","a","n","a","d","a"," ","(","C","e","n","t","r","a","l",")">>>>,
    \* ca-west-1 -> Canada West (Calgary)
    <<<<"c","a","-","w","e","s","t","-","1">>,
      <<"C","a","n","a","d","a"," ","W","e","s","t"," ","(","C","a","l","g","a","r","y",")">>>>,
    \* eu-central-1 -> EU (Frankfurt)
    <<<<"e","u","-","c","e","n","t","r","a","l","-","1">>,
      <<"E","U"," ","(","F","r","a","n","k","f","u","r","t",")">>>>,
    \* eu-central-2 -> EU (Zurich)
    <<<<"e","u","-","c","e","n","t","r","a","l","-","2">>,
      <<"E","U"," ","(","Z","u","r","i","c","h",")">>>>,
    \* eu-west-1 -> EU (Ireland)
    <<<<"e","u","-","w","e","s","t","-","1">>,
      <<"E","U"," ","(","I","r","e","l","a","n","d",")">>>>,
    \* eu-west-2 -> EU (London)
    <<<<"e","u","-","w","e","s","t","-","2">>,
      <<"E","U"," ","(","L","o","n","d","o","n",")">>>>,
    \* eu-west-3 -> EU (Paris)
    <<<<"e","u","-","w","e","s","t","-","3">>,
      <<"E","U"," ","(","P","a","r","i","s",")">>>>,
    \* eu-north-1 -> EU (Stockholm)
    <<<<"e","u","-","n","o","r","t","h","-","1">>,
      <<"E","U"," ","(","S","t","o","c","k","h","o","l","m",")">>>>,
    \* eu-south-1 -> EU (Milan)
    <<<<"e","u","-","s","o","u","t","h","-","1">>,
      <<"E","U"," ","(","M","i","l","a","n",")">>>>,
    \* eu-south-2 -> EU (Spain)
    <<<<"e","u","-","s","o","u","t","h","-","2">>,
      <<"E","U"," ","(","S","p","a","i","n",")">>>>,
    \* me-south-1 -> Middle East (Bahrain)
    <<<<"m","e","-","s","o","u","t","h","-","1">>,
      <<"M","i","d","d","l","e"," ","E","a","s","t"," ","(","B","a","h","r","a","i","n",")">>>>,
    \* me-central-1 -> Middle East (UAE)
    <<<<"m","e","-","c","e","n","t","r","a","l","-","1">>,
      <<"M","i","d","d","l","e"," ","E","a","s","t"," ","(","U","A","E",")">>>>,
    \* sa-east-1 -> South America (Sa~o Paulo)
    <<<<"s","a","-","e","a","s","t","-","1">>,
      <<"S","o","u","t","h"," ","A","m","e","r","i","c","a"," ","(","S","ã","o"," ","P","a","u","l","o",")">>>>
>>

\* get_location_for_region with a default: an unknown code is priced as
\* us-east-1
get_location_for_region_default(region_code) ==
    LET k == Lower(Strip(region_code))
        hit == {i \in 1..Len(REGION_TO_LOCATION) : REGION_TO_LOCATION[i][1] = k}
    IN  IF hit = {} THEN REGION_TO_LOCATION[1][2]
        ELSE REGION_TO_LOCATION[CHOOSE i \in hit : TRUE][2]

\* get_location_for_region without lower(): the key is only stripped
get_location_for_region_exact(region_code) ==
    LET k == Strip(region_code)
        hit == {i \in 1..Len(REGION_TO_LOCATION) : REGION_TO_LOCATION[i][1] = k}
    IN  IF hit = {} THEN None ELSE REGION_TO_LOCATION[CHOOSE i \in hit : TRUE][2]

\* dict.get on the table: the location of a key, None when the key is absent
get_location_for_region(region_code) ==
    LET k == Lower(Strip(region_code))
        hit == {i \in 1..Len(REGION_TO_LOCATION) : REGION_TO_LOCATION[i][1] = k}
    IN  IF hit = {} THEN None ELSE REGION_TO_LOCATION[CHOOSE i \in hit : TRUE][2]

\* LOCATION_TO_REGION = {v: k for k, v in REGION_TO_LOCATION.items()}: the pairs
\* in the order the comprehension stores them; a later pair replaces an earlier
\* one with the same location
LOCATION_TO_REGION ==
    [i \in 1..Len(REGION_TO_LOCATION) |->
        <<REGION_TO_LOCATION[i][2], REGION_TO_LOCATION[i][1]>>]

\* get_region_for_location looking the location up as a region code is looked
\* up, stripped and lower-cased
get_region_for_location_normalized(location) ==
    LET k == Lower(Strip(location))
        hit == {i \in 1..Len(LOCATION_TO_REGION) : LOCATION_TO_REGION[i][1] = k}
    IN  IF hit = {} THEN None
        ELSE LOCATION_TO_REGION[CHOOSE i \in hit : \A j \in hit : j <= i][2]

\* LOCATION_TO_REGION.get(location)
get_region_for_location(location) ==
    LET hit == {i \in 1..Len(LOCATION_TO_REGION) : LOCATION_TO_REGION[i][1] = location}
    IN  IF hit = {} THEN None
        ELSE LOCATION_TO_REGION[CHOOSE i \in hit : \A j \in hit : j <= i][2]

(***************************************************************************)
(* public_pricing.py: literals                                             *)
(***************************************************************************)
\* "https://pricing.us-east-1.amazonaws.com"
BASE_URL == <<"h","t","t","p","s",":","/","/","p","r","i","c","i","n","g",".","u","s","-","e","a","s","t","-","1",".","a","m","a","z","o","n","a","w","s",".","c","o","m">>
\* "AmazonS3"
SERVICE_CODE_S3 == <<"A","m","a","z","o","n","S","3">>
\* "AWSBackup"
SERVICE_CODE_BACKUP == <<"A","W","S","B","a","c","k","u","p">>

\* f"{BASE_URL}/offers/v1.0/aws"
OFFERS_BASE == BASE_URL \o (* "/offers/v1.0/aws" *) <<"/","o","f","f","e","r","s","/","v","1",".","0","/","a","w","s">>

\* float("inf")
Inf == 1000000
\* float("nan"): neither x < 0 nor x >= 0 holds of it.  In the model it is a
\* number below every price, and a test the code writes as "x < 0" excludes it.
NaN == -1000001

(***************************************************************************)
(* JSON values as the code receives them.  A raw scalar is                 *)
(*   [t |-> "absent"]  the key is missing          [t |-> "null"]  null    *)
(*   [t |-> "str", n |-> <<v>>]  a string that float() parses to v         *)
(*   [t |-> "str", n |-> <<>>]   a non-empty string float() rejects        *)
(*   [t |-> "num", n |-> <<v>>]  a JSON number     [t |-> "list"]  a list  *)
(***************************************************************************)
Raw(t, n) == [t |-> t, n |-> n]
Absent == Raw("absent", None)
NumStr(v) == Raw("str", Some(v))
BadStr == Raw("str", None)
Num(v) == Raw("num", Some(v))

\* dict.get(key) is None
IsNone(raw) == raw.t \in {"absent", "null"}

\* truth value of a raw scalar (strings and lists of the model are non-empty)
Truthy(raw) ==
    \/ raw.t \in {"str", "list"}
    \/ raw.t = "num" /\ raw.n[1] # 0

\* a or b
PyOr(a, b) == IF Truthy(a) THEN a ELSE b

\* float(x) inside try/except (TypeError, ValueError): Some(value), or None
\* when float() raises
PyFloat(raw) == IF raw.t \in {"str", "num"} THEN raw.n ELSE None

\* pricePerUnit: [t |-> "dict", m |-> <<<<currency, raw>>, ...>>] or a non-dict
\* value ([t |-> "absent" | "null" | "str"], m empty)
PriceMap(m) == [t |-> "dict", m |-> m]
NoPriceMap(t) == [t |-> t, m |-> <<>>]

\* dict.get(currency) on a pricePerUnit mapping
MapGet(m, currency) ==
    LET hit == {i \in 1..Len(m) : m[i][1] = currency}
    IN  IF hit = {} THEN Absent ELSE m[CHOOSE i \in hit : TRUE][2]

(***************************************************************************)
(* PricingResult (the two dataclasses have the same fields)                *)
(***************************************************************************)
PricingResult(rate, tiers, currency, sku, attrs, term_code, dim, raw_filter, error) ==
    [rate_per_gb_month |-> rate, tiers |-> tiers, unit |-> "GB-Mo",
     currency |-> currency, sku |-> sku, product_attributes |-> attrs,
     term_code |-> term_code, price_dimension |-> dim,
     raw_filter_used |-> raw_filter, error |-> error]

\* an error result built with a rate of 0.0 in place of None
ErrorResult_zero_rate(error, raw_filter) ==
    PricingResult(Some(0), <<>>, "USD", None, None, None, None, raw_filter, error)

\* PricingResult(error=..., raw_filter_used=...)
ErrorResult(error, raw_filter) ==
    PricingResult(None, <<>>, "USD", None, None, None, None, raw_filter, error)

(***************************************************************************)
(* public_pricing.py: pure helpers                                         *)
(***************************************************************************)
\* The network's answer to one GET, and what _fetch_json makes of it.
Response(k, body, msg) == [k |-> k, body |-> body, msg |-> msg]

\* the JSON object {}
EmptyObject == [empty |-> TRUE, offers |-> <<>>, products |-> <<>>]
IndexDoc(offers) == [empty |-> FALSE, offers |-> offers, products |-> <<>>]
OfferDoc(products) == [empty |-> FALSE, offers |-> <<>>, products |-> products]

FailureResponses ==
    { Response("HTTPError", EmptyObject, <<"HTTP ", "404", ": ", "Not Found">>),
      Response("URLError", EmptyObject, <<"[Errno -2] Name or service not known">>),
      Response("timeout", EmptyObject, <<"timed out">>),
      Response("JSONDecodeError", EmptyObject,
               <<"Expecting value: line 1 column 1 (char 0)">>) }

\* returns <<data, error_message>>
_fetch_json(resp) ==
    IF resp.k = "ok" THEN <<Some(resp.body), <<>>>> ELSE <<None, resp.msg>>

\* "if data:" / "if not data:" on what _fetch_json returned
HasData(data) == data # None /\ ~data[1].empty

pub_normalize_to_gb_month(price_per_unit, unit) ==
    LET u == Lower(Strip(unit))
    IN  IF Contains(u, (* "gb-mo" *) <<"g","b","-","m","o">>) \/ Contains(u, (* "gb-month" *) <<"g","b","-","m","o","n","t","h">>) \/ u = (* "gb" *) <<"g","b">>
        THEN Some(price_per_unit)
        ELSE None

\* returns <<price or None, unit>>
pub_parse_price_dimension(dim, currency) ==
    LET pu == dim.pricePerUnit
        price_per_unit == IF pu.t = "dict" THEN MapGet(pu.m, currency) ELSE Absent
    IN  IF IsNone(price_per_unit) THEN <<None, dim.unit>>
        ELSE <<PyFloat(price_per_unit), dim.unit>>

_build_tier_band(from_gb, to_gb, rate) ==
    [from_gb |-> from_gb, to_gb |-> to_gb, rate_per_gb_month |-> rate]

_get_offer_url_global(service_code) ==
    OFFERS_BASE \o (* "/" *) <<"/">> \o service_code \o (* "/current/index.json" *) <<"/","c","u","r","r","e","n","t","/","i","n","d","e","x",".","j","s","o","n">>

_get_offer_url_regional(service_code, region_code) ==
    OFFERS_BASE \o (* "/" *) <<"/">> \o service_code \o (* "/current/" *) <<"/","c","u","r","r","e","n","t","/">> \o region_code \o (* "/index.json" *) <<"/","i","n","d","e","x",".","j","s","o","n">>

\* f"{OFFERS_BASE}/index.json"
index_url == OFFERS_BASE \o (* "/index.json" *) <<"/","i","n","d","e","x",".","j","s","o","n">>

\* dict.get(service_code) on the index's offers: Some(offer) or None
OffersGet(offers, service_code) ==
    LET hit == {i \in 1..Len(offers) : offers[i][1] = service_code}
    IN  IF hit = {} THEN None ELSE Some(offers[CHOOSE i \in hit : TRUE][2])

\* An offer's URL field is a raw scalar whose text, for a str, is in s.
UrlField(t, s) == [t |-> t, n |-> IF t = "num" THEN Some(1) ELSE None, s |-> s]

\* _resolve_offer_url after its fetch: data is what _fetch_json returned
_resolve_offer_url(data, service_code) ==
    IF ~HasData(data) THEN None
    ELSE LET offer == OffersGet(data[1].offers, service_code)
         IN  IF offer = None THEN None
             ELSE LET rel == PyOr(offer[1].currentVersionUrl,
                                  offer[1].currentRegionIndexUrl)
                  IN  IF ~Truthy(rel) \/ rel.t # "str" THEN None
                      ELSE IF StartsWith(rel.s, (* "/" *) <<"/">>) THEN BASE_URL \o rel.s
                      ELSE IF ~StartsWith(rel.s, (* "http" *) <<"h","t","t","p">>)
                           THEN OFFERS_BASE \o (* "/" *) <<"/">> \o rel.s
                      ELSE rel.s

\* _discover_backup_offer_code after its fetch
_discover_backup_offer_code(data) ==
    IF ~HasData(data) THEN None
    ELSE LET offers == data[1].offers
             hit == {i \in 1..Len(offers) :
                        offers[i][1] # <<>> /\ Contains(Lower(offers[i][1]), (* "backup" *) <<"b","a","c","k","u","p">>)}
         IN  IF hit = {} THEN None
             ELSE offers[CHOOSE i \in hit : \A j \in hit : i <= j][1]

\* returns <<start, end>>
_range_from_dim(dim) ==
    LET br == PyOr(dim.beginRange, dim.startingRange)
        er == PyOr(dim.endRange, dim.endingRange)
        start == IF ~IsNone(br) /\ PyFloat(br) # None THEN PyFloat(br)[1] ELSE 0
        end == IF ~IsNone(er) /\ PyFloat(er) # None THEN PyFloat(er)[1] ELSE Inf
    IN  <<start, end>>

_backup_storage_match(attrs, location) ==
    LET loc == Strip(attrs.location)
        pf == Lower(Strip(attrs.productFamily))
        ut == Lower(attrs.usagetype)
    IN  IF loc # location THEN FALSE
        ELSE IF pf \in {(* "storage" *) <<"s","t","o","r","a","g","e">>, (* "backup storage" *) <<"b","a","c","k","u","p"," ","s","t","o","r","a","g","e">>, (* "backup" *) <<"b","a","c","k","u","p">>} THEN TRUE
        ELSE IF Contains(ut, (* "backup" *) <<"b","a","c","k","u","p">>) /\ Contains(ut, (* "storage" *) <<"s","t","o","r","a","g","e">>) THEN TRUE
        ELSE pf # <<>> /\ Contains(pf, (* "storage" *) <<"s","t","o","r","a","g","e">>)

(***************************************************************************)
(* Products.  A product is                                                 *)
(*   [sku, attributes |-> [productFamily, location, storageClass,          *)
(*    usagetype], terms |-> [OnDemand |-> <<term_detail, ...>>,            *)
(*    Reserved |-> <<term_detail, ...>>]],                                 *)
(* a term_detail is [priceDimensions |-> <<dim, ...>>] and a dim is        *)
(*   [pricePerUnit, unit, beginRange, endRange, startingRange,             *)
(*    endingRange].                                                        *)
(* The public document keeps products and terms in two dicts keyed by sku; *)
(* the model attaches a sku's terms to its product, and "sku not in        *)
(* on_demand" is an empty OnDemand sequence.  A missing attribute is "".   *)
(***************************************************************************)
\* for term_sku, term_detail in term_entries.items():
\*     for dim_id, dim in (term_detail.get("priceDimensions") or {}).items():
RECURSIVE DimsOf(_)
DimsOf(term_entries) ==
    IF term_entries = <<>> THEN <<>>
    ELSE Head(term_entries).priceDimensions \o DimsOf(Tail(term_entries))

\* the price dimensions of one product under one term type, each with the
\* product it belongs to
TermEntries(product, term_type) ==
    LET dims == DimsOf(product.terms[term_type])
    IN  [i \in 1..Len(dims) |->
            [sku |-> product.sku, attrs |-> product.attributes,
             term_code |-> term_type, dim |-> dims[i]]]

\* the rate a public scan takes from a dimension, or None when it skips it
pub_dimension_rate(dim, currency) ==
    LET parsed == pub_parse_price_dimension(dim, currency)
    IN  IF parsed[1] = None THEN None
        ELSE LET rate == pub_normalize_to_gb_month(parsed[1][1], parsed[2])
             IN  IF rate # None /\ rate[1] >= 0 THEN rate ELSE None

\* the rate resolve_s3_storage_public takes from a dimension, or None when it
\* skips it: "if rate is None or rate < 0: continue"
pub_s3_dimension_rate(dim, currency) ==
    LET parsed == pub_parse_price_dimension(dim, currency)
    IN  IF parsed[1] = None THEN None
        ELSE LET rate == pub_normalize_to_gb_month(parsed[1][1], parsed[2])
             IN  IF rate = None \/ (rate[1] # NaN /\ rate[1] < 0) THEN None ELSE rate

\* sorted(key=lambda x: x[0]): stable, ascending by the first component
RECURSIVE InsertByStart(_, _)
InsertByStart(sorted, x) ==
    IF sorted = <<>> THEN <<x>>
    ELSE IF x[1] < Head(sorted)[1] THEN <<x>> \o sorted
    ELSE <<Head(sorted)>> \o InsertByStart(Tail(sorted), x)

\* the collected triples left in the order collected
SortByStart_unsorted(triples) == triples

RECURSIVE SortByStart(_)
SortByStart(triples) ==
    IF triples = <<>> THEN <<>>
    ELSE InsertByStart(SortByStart(SubSeq(triples, 1, Len(triples) - 1)),
                       triples[Len(triples)])

TierBands(triples) ==
    [i \in 1..Len(triples) |->
        _build_tier_band(triples[i][1], triples[i][2], triples[i][3])]

(***************************************************************************)
(* public_pricing.py: the product scans                                    *)
(***************************************************************************)
\* the public Backup scan reading the Reserved terms of a product after its
\* OnDemand terms
RECURSIVE PubBackupEntries_any_term(_, _)
PubBackupEntries_any_term(products, location) ==
    IF products = <<>> THEN <<>>
    ELSE (IF _backup_storage_match(Head(products).attributes, location)
          THEN TermEntries(Head(products), "OnDemand")
               \o TermEntries(Head(products), "Reserved")
          ELSE <<>>)
         \o PubBackupEntries_any_term(Tail(products), location)

RECURSIVE PubBackupEntries(_, _)
PubBackupEntries(products, location) ==
    IF products = <<>> THEN <<>>
    ELSE (IF _backup_storage_match(Head(products).attributes, location)
          THEN TermEntries(Head(products), "OnDemand") ELSE <<>>)
         \o PubBackupEntries(Tail(products), location)

\* resolve_aws_backup_storage_public from "products = data.get(...)" on
pub_backup_scan(data, location, currency, url) ==
    LET raw_filter == Some([service |-> (* "AWS Backup (public)" *) <<"A","W","S"," ","B","a","c","k","u","p"," ","(","p","u","b","l","i","c",")">>,
                            location |-> location, url |-> url])
        entries == PubBackupEntries(data.products, location)
        usable == {i \in 1..Len(entries) :
                      pub_dimension_rate(entries[i].dim, currency) # None}
    IN  IF usable = {}
        THEN ErrorResult(<<"AWS Backup storage not in public price list for this region. S3 comparison below uses public pricing.">>,
                         raw_filter)
        ELSE LET e == entries[CHOOSE i \in usable : \A j \in usable : i <= j]
             IN  PricingResult(pub_dimension_rate(e.dim, currency), <<>>, currency, Some(e.sku),
                               Some(e.attrs), Some("OnDemand"), Some(e.dim),
                               raw_filter, None)

\* the filter without "sc not in want": a class attribute contained in the
\* requested class no longer passes
pub_s3_product_match_one_way(attrs, location, storage_class) ==
    LET sc == Lower(Strip(attrs.storageClass))
        want == Lower(Strip(storage_class))
    IN  /\ attrs.productFamily = (* "Storage" *) <<"S","t","o","r","a","g","e">>
        /\ attrs.location = location
        /\ \/ sc = <<>>
           \/ want = (* "standard" *) <<"s","t","a","n","d","a","r","d">> /\ (Contains(sc, <<"g","e","n","e","r","a","l">>) \/ sc = (* "standard" *) <<"s","t","a","n","d","a","r","d">>)
           \/ ~(want # sc /\ ~Contains(sc, want))

\* the product filter of resolve_s3_storage_public
pub_s3_product_match(attrs, location, storage_class) ==
    LET sc == Lower(Strip(attrs.storageClass))
        want == Lower(Strip(storage_class))
    IN  /\ attrs.productFamily = (* "Storage" *) <<"S","t","o","r","a","g","e">>
        /\ attrs.location = location
        /\ \/ sc = <<>>
           \/ want = (* "standard" *) <<"s","t","a","n","d","a","r","d">> /\ (Contains(sc, (* "general" *) <<"g","e","n","e","r","a","l">>) \/ sc = (* "standard" *) <<"s","t","a","n","d","a","r","d">>)
           \/ ~(want # sc /\ ~Contains(sc, want) /\ ~Contains(want, sc))

RECURSIVE PubS3Entries(_, _, _)
PubS3Entries(products, location, storage_class) ==
    IF products = <<>> THEN <<>>
    ELSE (IF pub_s3_product_match(Head(products).attributes, location, storage_class)
          THEN TermEntries(Head(products), "OnDemand") ELSE <<>>)
         \o PubS3Entries(Tail(products), location, storage_class)

\* tiers_with_rates of resolve_s3_storage_public, in the order appended
RECURSIVE pub_tiers_with_rates(_, _)
pub_tiers_with_rates(entries, currency) ==
    IF entries = <<>> THEN <<>>
    ELSE LET rate == pub_s3_dimension_rate(Head(entries).dim, currency)
             range == _range_from_dim(Head(entries).dim)
         IN  (IF rate = None THEN <<>> ELSE <<<<range[1], range[2], rate[1]>>>>)
             \o pub_tiers_with_rates(Tail(entries), currency)

\* the collapse that also reports the first band's rate as the flat rate
pub_s3_collapse_rate_and_tiers(tiers_with_rates, first, currency, raw_filter) ==
    IF tiers_with_rates = <<>>
    THEN ErrorResult(<<"No S3 storage price found for storage class and location in public price list">>,
                     raw_filter)
    ELSE LET sorted == SortByStart(tiers_with_rates)
         IN  IF Len(sorted) = 1 /\ sorted[1][2] = Inf
             THEN PricingResult(Some(sorted[1][3]), <<>>, currency, Some(first.sku),
                                Some(first.attrs), Some("OnDemand"), Some(first.dim),
                                raw_filter, None)
             ELSE PricingResult(Some(sorted[1][3]), TierBands(sorted), currency,
                                Some(first.sku), Some(first.attrs), Some("OnDemand"),
                                Some(first.dim), raw_filter, None)

\* resolve_s3_storage_public from "if not tiers_with_rates:" on; first is the
\* entry that set sku, product_attributes, term_code and price_dimension
pub_s3_collapse(tiers_with_rates, first, currency, raw_filter) ==
    IF tiers_with_rates = <<>>
    THEN ErrorResult(<<"No S3 storage price found for storage class and location in public price list">>,
                     raw_filter)
    ELSE LET sorted == SortByStart(tiers_with_rates)
         IN  IF Len(sorted) = 1 /\ sorted[1][2] = Inf
             THEN PricingResult(Some(sorted[1][3]), <<>>, currency, Some(first.sku),
                                Some(first.attrs), Some("OnDemand"), Some(first.dim),
                                raw_filter, None)
             ELSE PricingResult(None, TierBands(sorted), currency, Some(first.sku),
                                Some(first.attrs), Some("OnDemand"), Some(first.dim),
                                raw_filter, None)

\* resolve_s3_storage_public from "products = data.get(...)" on
pub_s3_scan(data, location, storage_class, currency, url) ==
    LET raw_filter == Some([service |-> (* "Amazon S3 (public)" *) <<"A","m","a","z","o","n"," ","S","3"," ","(","p","u","b","l","i","c",")">>,
                            storageClass |-> storage_class,
                            location |-> location, url |-> url])
        entries == PubS3Entries(data.products, location, storage_class)
        usable == {i \in 1..Len(entries) :
                      pub_s3_dimension_rate(entries[i].dim, currency) # None}
        first == IF usable = {} THEN <<>>
                 ELSE entries[CHOOSE i \in usable : \A j \in usable : i <= j]
    IN  pub_s3_collapse(pub_tiers_with_rates(entries, currency), first, currency, raw_filter)

(***************************************************************************)
(* pricing_resolver.py: the authenticated (GetProducts) client             *)
(***************************************************************************)
\* the resolver's normalizer taking every label that contains "gb"
res_normalize_to_gb_month_any_gb(price_per_unit, unit) ==
    LET u == Lower(Strip(unit))
    IN  IF Contains(u, (* "gb" *) <<"g","b">>) THEN Some(price_per_unit) ELSE None

res_normalize_to_gb_month(price_per_unit, unit) ==
    LET u == Lower(Strip(unit))
    IN  IF Contains(u, (* "gb-mo" *) <<"g","b","-","m","o">>) \/ Contains(u, (* "gb-month" *) <<"g","b","-","m","o","n","t","h">>) THEN Some(price_per_unit)
        ELSE IF u = (* "gb" *) <<"g","b">> THEN Some(price_per_unit)
        ELSE None

\* returns [raised, price, unit]; raised: dim.get("pricePerUnit", {}) is not a
\* dict, so .get(currency) raises AttributeError, which nothing catches
res_parse_price_dimension(dim, currency) ==
    LET pu == dim.pricePerUnit
        price_per_unit == IF pu.t = "dict" THEN MapGet(pu.m, currency) ELSE Absent
    IN  IF pu.t \notin {"dict", "absent"}
        THEN [raised |-> TRUE, price |-> None, unit |-> dim.unit]
        ELSE IF IsNone(price_per_unit)
        THEN [raised |-> FALSE, price |-> None, unit |-> dim.unit]
        ELSE [raised |-> FALSE, price |-> PyFloat(price_per_unit), unit |-> dim.unit]

\* what a resolver scan does with one dimension: "raise", "skip" or "use"
res_dimension_step(dim, currency) ==
    LET parsed == res_parse_price_dimension(dim, currency)
    IN  IF parsed.raised THEN "raise"
        ELSE IF parsed.price = None THEN "skip"
        ELSE LET rate == res_normalize_to_gb_month(parsed.price[1], parsed.unit)
             IN  IF rate # None /\ rate[1] >= 0 THEN "use" ELSE "skip"

\* what resolve_s3_storage does with one dimension: "if rate is None or
\* rate < 0: continue"
res_s3_dimension_step(dim, currency) ==
    LET parsed == res_parse_price_dimension(dim, currency)
    IN  IF parsed.raised THEN "raise"
        ELSE IF parsed.price = None THEN "skip"
        ELSE LET rate == res_normalize_to_gb_month(parsed.price[1], parsed.unit)
             IN  IF rate = None \/ (rate[1] # NaN /\ rate[1] < 0) THEN "skip" ELSE "use"

\* the rate of a dimension whose step is "use"
res_dimension_rate(dim, currency) ==
    res_normalize_to_gb_month(res_parse_price_dimension(dim, currency).price[1],
                              dim.unit)

\* a page given up at its first undecodable entry ("break" for "continue")
RECURSIVE DecodePage_until_failure(_)
DecodePage_until_failure(price_list) ==
    IF price_list = <<>> \/ Head(price_list).value = <<>> THEN <<>>
    ELSE Head(price_list).value \o DecodePage_until_failure(Tail(price_list))

\* One entry of a page's PriceList: a str that json.loads decodes to product
\* (value = <<product>>) or rejects with JSONDecodeError (value = <<>>).
\* get_products over the pages the paginator yields.
RECURSIVE DecodePage(_)
DecodePage(price_list) ==
    IF price_list = <<>> THEN <<>>
    ELSE Head(price_list).value \o DecodePage(Tail(price_list))

RECURSIVE get_products(_)
get_products(pages) ==
    IF pages = <<>> THEN <<>>
    ELSE DecodePage(Head(pages)) \o get_products(Tail(pages))

\* A scan returns [raised |-> FALSE, result |-> r], or raised |-> TRUE when an
\* exception leaves the function.
Returned(r) == [raised |-> FALSE, result |-> r]
Raised == [raised |-> TRUE, result |-> ErrorResult(None, None)]

Filter(field, value) == [Type |-> "TERM_MATCH", Field |-> field, Value |-> value]

backup_filters(location) ==
    << Filter("productFamily", (* "Storage" *) <<"S","t","o","r","a","g","e">>), Filter("location", location),
       Filter("serviceCode", (* "AWS Backup" *) <<"A","W","S"," ","B","a","c","k","u","p">>) >>

s3_filters(location, storage_class) ==
    << Filter("productFamily", (* "Storage" *) <<"S","t","o","r","a","g","e">>), Filter("location", location),
       Filter("serviceCode", (* "Amazon S3" *) <<"A","m","a","z","o","n"," ","S","3">>), Filter("storageClass", storage_class) >>

\* entries of the first loop of resolve_aws_backup_storage, and of the loop of
\* resolve_s3_storage: OnDemand dimensions of the "Storage" products
RECURSIVE ResOnDemandEntries(_)
ResOnDemandEntries(products) ==
    IF products = <<>> THEN <<>>
    ELSE (IF Head(products).attributes.productFamily = (* "Storage" *) <<"S","t","o","r","a","g","e">>
          THEN TermEntries(Head(products), "OnDemand") ELSE <<>>)
         \o ResOnDemandEntries(Tail(products))

\* entries of the second loop of resolve_aws_backup_storage: per product,
\* OnDemand then Reserved
RECURSIVE ResAnyTermEntries(_)
ResAnyTermEntries(products) ==
    IF products = <<>> THEN <<>>
    ELSE (IF Head(products).attributes.productFamily = (* "Storage" *) <<"S","t","o","r","a","g","e">>
          THEN TermEntries(Head(products), "OnDemand")
               \o TermEntries(Head(products), "Reserved")
          ELSE <<>>)
         \o ResAnyTermEntries(Tail(products))

\* index of the first entry a first-match loop does not skip, 0 when it skips all
FirstStop(entries, currency) ==
    LET stop == {i \in 1..Len(entries) :
                    res_dimension_step(entries[i].dim, currency) # "skip"}
    IN  IF stop = {} THEN 0 ELSE CHOOSE i \in stop : \A j \in stop : i <= j

\* "return best" of either loop of resolve_aws_backup_storage
res_backup_best(e, currency, raw_filter) ==
    PricingResult(res_dimension_rate(e.dim, currency), <<>>, currency, Some(e.sku),
                  Some(e.attrs), Some(e.term_code), Some(e.dim), raw_filter, None)

\* one pass over the products, OnDemand then Reserved of each, in place of
\* the two loops
res_backup_scan_single_pass(products, location, currency) ==
    LET raw_filter == Some([service |-> (* "AWS Backup" *) <<"A","W","S"," ","B","a","c","k","u","p">>, location |-> location,
                            filters |-> backup_filters(location)])
        second == ResAnyTermEntries(products)
        i2 == FirstStop(second, currency)
    IN  IF i2 # 0
        THEN IF res_dimension_step(second[i2].dim, currency) = "raise" THEN Raised
             ELSE Returned(res_backup_best(second[i2], currency, raw_filter))
        ELSE Returned(ErrorResult(<<"No AWS Backup storage price found for location">>,
                                  raw_filter))

\* resolve_aws_backup_storage from "best: PricingResult = ..." on
res_backup_scan(products, location, currency) ==
    LET raw_filter == Some([service |-> (* "AWS Backup" *) <<"A","W","S"," ","B","a","c","k","u","p">>, location |-> location,
                            filters |-> backup_filters(location)])
        first == ResOnDemandEntries(products)
        i1 == FirstStop(first, currency)
        second == ResAnyTermEntries(products)
        i2 == FirstStop(second, currency)
    IN  IF i1 # 0
        THEN IF res_dimension_step(first[i1].dim, currency) = "raise" THEN Raised
             ELSE Returned(res_backup_best(first[i1], currency, raw_filter))
        ELSE IF i2 # 0
        THEN IF res_dimension_step(second[i2].dim, currency) = "raise" THEN Raised
             ELSE Returned(res_backup_best(second[i2], currency, raw_filter))
        ELSE Returned(ErrorResult(<<"No AWS Backup storage price found for location">>,
                                  raw_filter))

\* the (start, end) of a dimension in resolve_s3_storage
res_range_from_dim(dim) ==
    LET br == dim.beginRange
        er == dim.endRange
        start == IF ~IsNone(br) /\ PyFloat(br) # None THEN PyFloat(br)[1] ELSE 0
        end == IF ~IsNone(er) /\ PyFloat(er) # None THEN PyFloat(er)[1] ELSE Inf
    IN  <<start, end>>

\* tiers_with_rates of resolve_s3_storage, in the order appended
RECURSIVE res_tiers_with_rates(_, _)
res_tiers_with_rates(entries, currency) ==
    IF entries = <<>> THEN <<>>
    ELSE LET range == res_range_from_dim(Head(entries).dim)
         IN  (IF res_s3_dimension_step(Head(entries).dim, currency) = "use"
              THEN <<<<range[1], range[2],
                       res_dimension_rate(Head(entries).dim, currency)[1]>>>>
              ELSE <<>>)
             \o res_tiers_with_rates(Tail(entries), currency)

\* resolve_s3_storage from "if not tiers_with_rates:" on
res_s3_collapse(tiers_with_rates, first, currency, raw_filter) ==
    IF tiers_with_rates = <<>>
    THEN ErrorResult(<<"No S3 storage price found for storage class and location">>,
                     raw_filter)
    ELSE LET sorted == SortByStart(tiers_with_rates)
         IN  IF Len(sorted) = 1 /\ sorted[1][2] = Inf
             THEN PricingResult(Some(sorted[1][3]), <<>>, currency, Some(first.sku),
                                Some(first.attrs), Some("OnDemand"), Some(first.dim),
                                raw_filter, None)
             ELSE PricingResult(None, TierBands(sorted), currency, Some(first.sku),
                                Some(first.attrs), Some("OnDemand"), Some(first.dim),
                                raw_filter, None)

\* resolve_s3_storage from "result = PricingResult(...)" on
res_s3_scan(products, location, storage_class, currency) ==
    LET raw_filter == Some([service |-> (* "Amazon S3" *) <<"A","m","a","z","o","n"," ","S","3">>, storageClass |-> storage_class,
                            location |-> location])
        entries == ResOnDemandEntries(products)
        usable == {i \in 1..Len(entries) :
                      res_s3_dimension_step(entries[i].dim, currency) = "use"}
        first == IF usable = {} THEN <<>>
                 ELSE entries[CHOOSE i \in usable : \A j \in usable : i <= j]
    IN  IF \E i \in 1..Len(entries) :
               res_s3_dimension_step(entries[i].dim, currency) = "raise"
        THEN Raised
        ELSE Returned(res_s3_collapse(res_tiers_with_rates(entries, currency),
                                      first, currency, raw_filter))


(***************************************************************************)
(* The inputs and the outside world of one resolution call                 *)
(***************************************************************************)
Fns == {"resolve_aws_backup_storage_public", "resolve_s3_storage_public",
        "resolve_aws_backup_storage", "resolve_s3_storage"}
IsBackupFn(fn) ==
    fn \in {"resolve_aws_backup_storage_public", "resolve_aws_backup_storage"}
IsResolverFn(fn) == fn \in {"resolve_aws_backup_storage", "resolve_s3_storage"}

\* "us-east-1"
rUsEast1 == <<"u","s","-","e","a","s","t","-","1">>
\* "xx-east-1"
rUnknown == <<"x","x","-","e","a","s","t","-","1">>

\* "Standard"
scStandard == <<"S","t","a","n","d","a","r","d">>

Currencies == {"USD"}

\* units
\* "GB-Mo"
uGbMo == <<"G","B","-","M","o">>

\* attribute values
\* "US East (N. Virginia)"
lVirginia == <<"U","S"," ","E","a","s","t"," ","(","N","."," ","V","i","r","g","i","n","i","a",")">>
\* "General Purpose"
aGeneralPurpose == <<"G","e","n","e","r","a","l"," ","P","u","r","p","o","s","e">>

Usd(raw) == PriceMap(<< <<"USD", raw>> >>)

Dim(price, unit, begin, end) ==
    [pricePerUnit |-> price, unit |-> unit, beginRange |-> begin, endRange |-> end,
     startingRange |-> Absent, endingRange |-> Absent]

dFlat == Dim(Usd(NumStr(23)), uGbMo, Absent, Absent)
dTier1 == Dim(Usd(NumStr(23)), uGbMo, NumStr(0), NumStr(50))
dTier2 == Dim(Usd(NumStr(22)), uGbMo, NumStr(50), NumStr(Inf))

Attrs(family, location, class) ==
    [productFamily |-> family, location |-> location, storageClass |-> class,
     usagetype |-> (* "TimedStorage-ByteHrs" *) <<"T","i","m","e","d","S","t","o","r","a","g","e","-","B","y","t","e","H","r","s">>]

StdAttrs == Attrs((* "Storage" *) <<"S","t","o","r","a","g","e">>, lVirginia, aGeneralPurpose)

Product(sku, attrs, on_demand, reserved) ==
    [sku |-> sku, attributes |-> attrs,
     terms |-> [OnDemand |-> IF on_demand = <<>> THEN <<>>
                             ELSE <<[priceDimensions |-> on_demand]>>,
                Reserved |-> IF reserved = <<>> THEN <<>>
                             ELSE <<[priceDimensions |-> reserved]>>]]

Products ==
    LET dFree == Dim(Usd(NumStr(0)), uGbMo, Absent, Absent)
        dHours == Dim(Usd(NumStr(5)), (* "Hrs" *) <<"H","r","s">>, Absent, Absent)
        dNegative == Dim(Usd(NumStr(-1)), uGbMo, Absent, Absent)
        dNonNumeric == Dim(Usd(BadStr), uGbMo, Absent, Absent)
        dNoCurrency == Dim(PriceMap(<< <<"CNY", NumStr(150)>> >>), uGbMo, Absent, Absent)
        dMissing == Dim(NoPriceMap("absent"), uGbMo, Absent, Absent)
        dNotMapping == Dim(NoPriceMap("str"), uGbMo, Absent, Absent)
        dReserved == Dim(Usd(NumStr(19)), (* " GB " *) <<" ","G","B"," ">>, Absent, Absent)
    IN
    { Product("FLAT", StdAttrs, <<dFlat>>, <<>>),
      Product("FREE", StdAttrs, <<dFree>>, <<>>),
      Product("TIERS", StdAttrs, <<dTier2, dTier1>>, <<>>),
      Product("FINITE", StdAttrs, <<dTier1>>, <<>>),
      Product("SKIPPED", StdAttrs, <<dHours, dNegative>>, <<>>),
      Product("MALFORMED", StdAttrs, <<dNonNumeric, dNoCurrency, dMissing, dFlat>>, <<>>),
      Product("NOTMAPPING", StdAttrs, <<dNotMapping, dFlat>>, <<>>),
      Product("RESERVED", StdAttrs, <<>>, <<dReserved>>),
      Product("REQUESTS", Attrs((* "API Request" *) <<"A","P","I"," ","R","e","q","u","e","s","t">>, lVirginia, aGeneralPurpose), <<dFlat>>, <<>>),
      Product("IRELAND", Attrs((* "Storage" *) <<"S","t","o","r","a","g","e">>, (* "EU (Ireland)" *) <<"E","U"," ","(","I","r","e","l","a","n","d",")">>, aGeneralPurpose), <<dFlat>>, <<>>),
      Product("GLACIER", Attrs((* "Storage" *) <<"S","t","o","r","a","g","e">>, lVirginia, (* "Glacier" *) <<"G","l","a","c","i","e","r">>), <<dTier2>>, <<>>) }

\* the most products one document or one GetProducts answer holds
MaxProducts == 1

ProductLists == UNION {[1..n -> Products] : n \in 0..MaxProducts}

\* the documents a per-service URL can serve
OfferDocs == {OfferDoc(ps) : ps \in ProductLists}

\* PriceList entries
Decodable(product) == [value |-> <<product>>]
Undecodable == [value |-> <<>>]

\* the PriceLists of one page
PriceListsOfPage ==
    UNION {[1..n -> {Decodable(p) : p \in Products} \cup {Undecodable}] :
              n \in 0..MaxProducts}

\* what the paginator can yield: the entries on one page, or split over two
\* pages after the first entry
PagesOf(entries) ==
    {<<entries>>} \cup (IF Len(entries) < 2 THEN {}
                       ELSE {<<SubSeq(entries, 1, 1), SubSeq(entries, 2, Len(entries))>>})

PriceLists == UNION {PagesOf(entries) : entries \in PriceListsOfPage}

Offer(code, current_version_url, current_region_index_url) ==
    <<code, [currentVersionUrl |-> current_version_url,
             currentRegionIndexUrl |-> current_region_index_url]>>

Indexes ==
    LET
        \* the top-level index as AWS serves it: the embedded URL of a service is its
        \* global URL, and the Backup offer is listed under the statically known code
        IndexCurrent ==
            IndexDoc(<< Offer(SERVICE_CODE_S3, UrlField("str", (* "/offers/v1.0/aws/AmazonS3/current/index.json" *) <<"/","o","f","f","e","r","s","/","v","1",".","0","/","a","w","s","/","A","m","a","z","o","n","S","3","/","c","u","r","r","e","n","t","/","i","n","d","e","x",".","j","s","o","n">>),
                              UrlField("str", (* "/offers/v1.0/aws/AmazonS3/current/region_index.json" *) <<"/","o","f","f","e","r","s","/","v","1",".","0","/","a","w","s","/","A","m","a","z","o","n","S","3","/","c","u","r","r","e","n","t","/","r","e","g","i","o","n","_","i","n","d","e","x",".","j","s","o","n">>)),
                        Offer(SERVICE_CODE_BACKUP, UrlField("str", (* "/offers/v1.0/aws/AWSBackup/current/index.json" *) <<"/","o","f","f","e","r","s","/","v","1",".","0","/","a","w","s","/","A","W","S","B","a","c","k","u","p","/","c","u","r","r","e","n","t","/","i","n","d","e","x",".","j","s","o","n">>),
                              UrlField("absent", <<>>)) >>)
        \* versioned URLs, the Backup offer under another code
        IndexVersioned ==
            IndexDoc(<< Offer(SERVICE_CODE_S3, UrlField("str", (* "https://pricing.us-east-1.amazonaws.com/offers/v1.0/aws/AmazonS3/20240101/index.json" *) <<"h","t","t","p","s",":","/","/","p","r","i","c","i","n","g",".","u","s","-","e","a","s","t","-","1",".","a","m","a","z","o","n","a","w","s",".","c","o","m","/","o","f","f","e","r","s","/","v","1",".","0","/","a","w","s","/","A","m","a","z","o","n","S","3","/","2","0","2","4","0","1","0","1","/","i","n","d","e","x",".","j","s","o","n">>),
                              UrlField("absent", <<>>)),
                        Offer((* "AWSBackupStorage" *) <<"A","W","S","B","a","c","k","u","p","S","t","o","r","a","g","e">>, UrlField("absent", <<>>),
                              UrlField("str", (* "AWSBackupStorage/20240101/index.json" *) <<"A","W","S","B","a","c","k","u","p","S","t","o","r","a","g","e","/","2","0","2","4","0","1","0","1","/","i","n","d","e","x",".","j","s","o","n">>)) >>)
        \* no Backup offer, and an S3 offer whose URL is not a string
        IndexOther ==
            IndexDoc(<< Offer((* "AmazonEC2" *) <<"A","m","a","z","o","n","E","C","2">>, UrlField("str", (* "/offers/v1.0/aws/AmazonEC2/current/index.json" *) <<"/","o","f","f","e","r","s","/","v","1",".","0","/","a","w","s","/","A","m","a","z","o","n","E","C","2","/","c","u","r","r","e","n","t","/","i","n","d","e","x",".","j","s","o","n">>), UrlField("absent", <<>>)),
                        Offer(SERVICE_CODE_S3, UrlField("num", <<>>), UrlField("absent", <<>>)) >>)
    IN  {IndexCurrent, IndexVersioned, IndexOther}

\* the answers the network can give to one GET whose document would be body
Responses(bodies) ==
    FailureResponses \cup {Response("ok", b, <<>>) : b \in bodies \cup {EmptyObject}}

(***************************************************************************)
(* One resolution call as a state machine.  Every action is one piece of   *)
(* the call between two meetings with the outside world (a GET, the        *)
(* creation of the boto3 client, the paginated query); the outcome of the  *)
(* meeting is chosen by the world.                                         *)
(***************************************************************************)
VARIABLES
    pc,            \* where the call stands: "idle", the next meeting, "done"
    call,          \* the arguments: [fn, region_code, storage_class, currency, client]
    index,         \* the top-level index the price list serves during the call
    service_codes, \* resolve_aws_backup_storage_public: the tuple it loops over
    ci,            \* ... and the position of the loop in it
    url,           \* local url of the public function
    fetch_error,   \* local fetch_error of the public function
    pub_result,    \* the resolver's pub_result, None before the public call returned
    fetched,       \* every GET so far: [site, url, ok]
    auth_log,      \* every use of the authenticated client: [op, outcome, pages]
    ret,           \* None, or what the call came to: [raised, result]
    scanned,       \* history: the public document whose scan gave ret, if one did
    _store,        \* pricing_cache._store: key -> [val, cached_at]
    now,           \* time.monotonic()
    resolved,      \* history: the resolver calls the last request made
    threads,       \* request threads inside a TTLCache method: [op, pc, val, at, out]
    session        \* a conversation Session: its messages

vars == <<pc, call, index, service_codes, ci, url, fetch_error, pub_result,
          fetched, auth_log, ret, scanned, _store, now, resolved, threads, session>>

\* the state of the process outside one resolution call
process == <<_store, now, resolved, threads, session>>

\* the locals and the history of one resolution call
resolution == <<index, service_codes, ci, url, fetch_error, pub_result, fetched,
                auth_log, scanned>>

NoCall == [fn |-> "none", region_code |-> <<>>, storage_class |-> <<>>,
           currency |-> "USD", client |-> FALSE]

Init ==
    /\ pc = "idle"
    /\ call = NoCall
    /\ index = EmptyObject
    /\ service_codes = <<>>
    /\ ci = 0
    /\ url = None
    /\ fetch_error = <<>>
    /\ pub_result = None
    /\ fetched = <<>>
    /\ auth_log = <<>>
    /\ ret = None
    /\ scanned = None
    /\ _store = <<>>
    /\ now = 0
    /\ resolved = <<>>
    /\ threads = <<>>
    /\ session = <<>>

location == get_location_for_region(call.region_code)
service_code == service_codes[ci]

Get(site, u, data) == [site |-> site, url |-> u, ok |-> HasData(data)]

\* the test written on the truth of the rate ("and pub_result.rate_per_gb_month")
res_public_usable_truthy(fn, r) ==
    IF fn = "resolve_aws_backup_storage"
    THEN r.error = <<>> /\ r.rate_per_gb_month # None /\ r.rate_per_gb_month # Some(0)
    ELSE r.error = <<>> /\ (   (r.rate_per_gb_month # None /\ r.rate_per_gb_month # Some(0))
                            \/ r.tiers # <<>>)

\* pricing_resolver.py: "if not pub_result.error and ..." of the two resolvers
res_public_usable(fn, r) ==
    IF fn = "resolve_aws_backup_storage"
    THEN r.error = <<>> /\ r.rate_per_gb_month # None
    ELSE r.error = <<>> /\ (r.rate_per_gb_month # None \/ r.tiers # <<>>)

\* pricing_resolver.py: the PricingResult built from a usable pub_result
res_from_public(fn, r) ==
    PricingResult(r.rate_per_gb_month,
                  IF fn = "resolve_aws_backup_storage" THEN <<>> ELSE r.tiers,
                  r.currency, r.sku, r.product_attributes, r.term_code,
                  r.price_dimension, r.raw_filter_used, None)

\* the locals of the public function end with it
PublicLocalsGone ==
    /\ service_codes' = <<>>
    /\ ci' = 0
    /\ url' = None
    /\ fetch_error' = <<>>

\* The public function returns r: to the caller, or into the resolver, which
\* returns it when usable and otherwise turns to the authenticated client.
PublicReturns(r) ==
    IF ~IsResolverFn(call.fn)
    THEN /\ ret' = Some(Returned(r))
         /\ pc' = "done"
         /\ UNCHANGED pub_result
         /\ PublicLocalsGone
    ELSE /\ pub_result' = Some(r)
         /\ PublicLocalsGone
         /\ IF res_public_usable(call.fn, r)
            THEN /\ ret' = Some(Returned(res_from_public(call.fn, r)))
                 /\ pc' = "done"
            ELSE /\ ret' = ret
                 /\ pc' = IF call.client THEN "get_products" ELSE "create_client"

\* the public function scans the document data it fetched from u
PublicScans(data, u) ==
    /\ PublicReturns(IF IsBackupFn(call.fn)
                     THEN pub_backup_scan(data, location, call.currency, Some(u))
                     ELSE pub_s3_scan(data, location, call.storage_class,
                                      call.currency, Some(u)))
    /\ scanned' = IF pc' = "done" THEN Some(data) ELSE None

\* "if not data: return PricingResult(error=...)" of the two public functions
pub_unavailable(fn, region_code, error, u) ==
    IF IsBackupFn(fn)
    THEN ErrorResult(<<"AWS Backup not in public price list. ">>
                        \o (IF error # <<>> THEN error
                            ELSE <<"Try Pricing API with credentials for Backup.">>),
                     Some([service |-> (* "AWS Backup" *) <<"A","W","S"," ","B","a","c","k","u","p">>, region |-> region_code, url |-> u]))
    ELSE ErrorResult(<<"Public price list (S3) unavailable. ">>
                        \o (IF error # <<>> THEN error ELSE <<"Check network.">>),
                     Some([service |-> SERVICE_CODE_S3, region |-> region_code,
                           url |-> u]))

\* A resolve function is called.  An unknown region returns at once.
Call(fn, region_code, storage_class, currency, client, idx) ==
    /\ pc = "idle"
    /\ call' = [fn |-> fn, region_code |-> region_code,
                storage_class |-> storage_class, currency |-> currency,
                client |-> client]
    /\ index' = idx
    /\ IF get_location_for_region(region_code) = None
       THEN /\ ret' = Some(Returned(ErrorResult(<<"Unknown region: ">> \o region_code,
                                                None)))
            /\ pc' = "done"
            /\ UNCHANGED <<service_codes, ci>>
       ELSE IF IsBackupFn(fn)
       THEN /\ pc' = "discover"
            /\ UNCHANGED <<ret, service_codes, ci>>
       ELSE /\ pc' = "resolve_offer_url"
            /\ service_codes' = <<SERVICE_CODE_S3>>
            /\ ci' = 1
            /\ ret' = ret
    /\ UNCHANGED <<process, url, fetch_error, pub_result, fetched, auth_log, scanned>>

\* resolve_aws_backup_storage_public: _discover_backup_offer_code() and the
\* start of the loop over (discovered code, SERVICE_CODE_BACKUP)
DiscoverBackupOfferCode(resp) ==
    /\ pc = "discover"
    /\ LET data == _fetch_json(resp)[1]
           found == _discover_backup_offer_code(data)
       IN  /\ fetched' = Append(fetched, Get("discover", index_url, data))
           /\ service_codes' = <<found, SERVICE_CODE_BACKUP>>
           /\ ci' = IF found # <<>> THEN 1 ELSE 2
    /\ pc' = "resolve_offer_url"
    /\ UNCHANGED <<process, call, index, url, fetch_error, pub_result, auth_log, ret, scanned>>

\* url = _resolve_offer_url(service_code)
ResolveOfferUrl(resp) ==
    /\ pc = "resolve_offer_url"
    /\ LET data == _fetch_json(resp)[1]
           u == _resolve_offer_url(data, service_code)
       IN  /\ fetched' = Append(fetched, Get("index", index_url, data))
           /\ url' = IF u = None THEN None ELSE Some(u)
           /\ pc' = IF u # None THEN "fetch_embedded" ELSE "fetch_global"
    /\ UNCHANGED <<process, call, index, service_codes, ci, fetch_error, pub_result,
                   auth_log, ret, scanned>>

\* a failed embedded URL followed by the regional URL, the global one left out
FetchEmbedded_skips_global(resp) ==
    /\ pc = "fetch_embedded"
    /\ LET got == _fetch_json(resp)
       IN  /\ fetched' = Append(fetched, Get("embedded", url[1], got[1]))
           /\ IF HasData(got[1])
              THEN PublicScans(got[1][1], url[1])
              ELSE /\ pc' = "fetch_regional"
                   /\ fetch_error' = got[2]
                   /\ UNCHANGED <<service_codes, ci, url, pub_result, ret, scanned>>
    /\ UNCHANGED <<process, call, index, auth_log>>

\* "if url: data, fetch_error = _fetch_json(url)"
FetchEmbedded(resp) ==
    /\ pc = "fetch_embedded"
    /\ LET got == _fetch_json(resp)
       IN  /\ fetched' = Append(fetched, Get("embedded", url[1], got[1]))
           /\ IF HasData(got[1])
              THEN PublicScans(got[1][1], url[1])
              ELSE /\ pc' = "fetch_global"
                   /\ fetch_error' = got[2]
                   /\ UNCHANGED <<service_codes, ci, url, pub_result, ret, scanned>>
    /\ UNCHANGED <<process, call, index, auth_log>>

\* "if not data: url = _get_offer_url_global(...)"
FetchGlobal(resp) ==
    /\ pc = "fetch_global"
    /\ LET u == _get_offer_url_global(service_code)
           got == _fetch_json(resp)
       IN  /\ fetched' = Append(fetched, Get("global", u, got[1]))
           /\ IF HasData(got[1])
              THEN PublicScans(got[1][1], u)
              ELSE /\ pc' = "fetch_regional"
                   /\ url' = Some(u)
                   /\ fetch_error' = IF got[2] # <<>> THEN got[2] ELSE fetch_error
                   /\ UNCHANGED <<service_codes, ci, pub_result, ret, scanned>>
    /\ UNCHANGED <<process, call, index, auth_log>>

\* "if not data: url = _get_offer_url_regional(...)", and what follows when
\* this fetch fails too: the next service code, or the error result
FetchRegional(resp) ==
    /\ pc = "fetch_regional"
    /\ LET u == _get_offer_url_regional(service_code, call.region_code)
           got == _fetch_json(resp)
           error == IF got[2] # <<>> THEN got[2] ELSE fetch_error
       IN  /\ fetched' = Append(fetched, Get("regional", u, got[1]))
           /\ IF HasData(got[1])
              THEN PublicScans(got[1][1], u)
              ELSE IF ci < Len(service_codes)
              THEN /\ ci' = ci + 1
                   /\ pc' = "resolve_offer_url"
                   /\ url' = Some(u)
                   /\ fetch_error' = error
                   /\ UNCHANGED <<service_codes, pub_result, ret, scanned>>
              ELSE /\ PublicReturns(pub_unavailable(call.fn, call.region_code,
                                                    error, Some(u)))
                   /\ scanned' = None
    /\ UNCHANGED <<process, call, index, auth_log>>

\* the generic credentials message whatever the public error
res_no_credentials_generic(public_error, generic) == generic

\* the error of a resolver whose authenticated client has no credentials
res_no_credentials(public_error, generic) ==
    IF public_error # <<>> THEN public_error ELSE generic

\* "c = client or boto3.client(...)" with its except clauses
CreateClient(outcome) ==
    /\ pc = "create_client"
    /\ auth_log' = Append(auth_log, [op |-> "client", outcome |-> outcome,
                                     pages |-> <<>>])
    /\ IF outcome = "ok"
       THEN /\ pc' = "get_products"
            /\ ret' = ret
       ELSE /\ pc' = "done"
            /\ ret' = Some(Returned(
                 IF outcome = "NoCredentialsError"
                 THEN ErrorResult(
                        res_no_credentials(pub_result[1].error,
                            <<"Pricing unavailable. Public price list failed; no AWS credentials for API fallback.">>),
                        pub_result[1].raw_filter_used)
                 ELSE ErrorResult(<<"Failed to create pricing client: ",
                                    "Unknown service: 'pricing'">>, None)))
    /\ UNCHANGED <<process, call, index, service_codes, ci, url, fetch_error, pub_result,
                   fetched, scanned>>

\* "products = get_products(c, ...)" with its except clauses, and the scan
GetProducts(outcome, pages) ==
    /\ pc = "get_products"
    /\ auth_log' = Append(auth_log, [op |-> "get_products", outcome |-> outcome,
                                     pages |-> pages])
    /\ pc' = "done"
    /\ LET filters == IF IsBackupFn(call.fn) THEN backup_filters(location)
                      ELSE s3_filters(location, call.storage_class)
       IN  ret' = Some(
             IF outcome = "ok"
             THEN IF IsBackupFn(call.fn)
                  THEN res_backup_scan(get_products(pages), location, call.currency)
                  ELSE res_s3_scan(get_products(pages), location,
                                   call.storage_class, call.currency)
             ELSE IF outcome = "NoCredentialsError"
             THEN Returned(ErrorResult(
                    res_no_credentials(pub_result[1].error,
                        <<"Public price list failed; no AWS credentials for API fallback.">>),
                    pub_result[1].raw_filter_used))
             ELSE IF outcome = "ClientError"
             THEN Returned(ErrorResult(
                    <<"An error occurred (AccessDeniedException) when calling the GetProducts operation: denied">>,
                    Some([filters |-> filters])))
             ELSE Returned(ErrorResult(<<"Connection was closed before we received a valid response">>,
                                       Some([filters |-> filters]))))
    /\ UNCHANGED <<process, call, index, service_codes, ci, url, fetch_error, pub_result,
                   fetched, scanned>>

Next ==
    \/ \E fn \in Fns, region_code \in {rUsEast1, rUnknown}, currency \in Currencies,
          idx \in Indexes :
          \E storage_class \in IF IsBackupFn(fn) THEN {<<>>} ELSE {scStandard},
             client \in IF IsResolverFn(fn) THEN BOOLEAN ELSE {FALSE} :
             Call(fn, region_code, storage_class, currency, client, idx)
    \/ \E resp \in Responses({index}) : DiscoverBackupOfferCode(resp)
    \/ \E resp \in Responses({index}) : ResolveOfferUrl(resp)
    \/ \E resp \in Responses(OfferDocs) : FetchEmbedded(resp)
    \/ \E resp \in Responses(OfferDocs) : FetchGlobal(resp)
    \/ \E resp \in Responses(OfferDocs) : FetchRegional(resp)
    \/ \E outcome \in {"ok", "NoCredentialsError", "Exception"} : CreateClient(outcome)
    \/ \E pages \in PriceLists : GetProducts("ok", pages)
    \/ \E outcome \in {"NoCredentialsError", "ClientError", "Exception"} : GetProducts(outcome, <<>>)

Spec == Init /\ [][Next]_vars

(***************************************************************************)
(* The functions of the program that depend on their arguments alone, each *)
(* applied to arguments drawn at the start: SpecFn.  call holds the        *)
(* function's name and arguments, ret what it returned.                    *)
(***************************************************************************)
\* the most products a scanned document or answer holds under SpecFn
MaxScanProducts == 2

\* what an application leaves alone
locals == <<call, index, service_codes, ci, url, fetch_error, pub_result,
            fetched, auth_log, scanned,
            process>>

\* resolve_s3_storage_public from "products = data.get(...)" on
PublicS3Scan ==
    /\ pc = "idle"
    /\ call.fn = "resolve_s3_storage_public"
    /\ pc' = "done"
    /\ ret' = Some(pub_s3_scan(OfferDoc(call.products), lVirginia, call.storage_class,
                               call.currency, _get_offer_url_global(SERVICE_CODE_S3)))
    /\ UNCHANGED locals

\* resolve_s3_storage from "result = PricingResult(...)" on
AuthS3Scan ==
    /\ pc = "idle"
    /\ call.fn = "resolve_s3_storage"
    /\ pc' = "done"
    /\ ret' = Some(res_s3_scan(call.products, lVirginia, call.storage_class,
                               call.currency))
    /\ UNCHANGED locals

\* resolve_s3_storage_public: the tests a product passes before its
\* dimensions are read
S3ProductMatch ==
    /\ pc = "idle"
    /\ call.fn = "pub_s3_product_match"
    /\ pc' = "done"
    /\ ret' = Some(pub_s3_product_match(call.attrs,
                                        get_location_for_region(call.region_code),
                                        call.storage_class))
    /\ UNCHANGED locals

\* the (start, end) of a dimension as each S3 path derives it
RangeFromDim ==
    /\ pc = "idle"
    /\ call.fn = "_range_from_dim"
    /\ pc' = "done"
    /\ ret' = Some([public |-> _range_from_dim(call.dim),
                    authenticated |-> res_range_from_dim(call.dim)])
    /\ UNCHANGED locals

\* resolve_aws_backup_storage from "best: PricingResult = ..." on
AuthBackupScan ==
    /\ pc = "idle"
    /\ call.fn = "resolve_aws_backup_storage"
    /\ pc' = "done"
    /\ ret' = Some(res_backup_scan(call.products, lVirginia, call.currency))
    /\ UNCHANGED locals

\* resolve_aws_backup_storage_public from "products = data.get(...)" on
PublicBackupScan ==
    /\ pc = "idle"
    /\ call.fn = "resolve_aws_backup_storage_public"
    /\ pc' = "done"
    /\ ret' = Some(pub_backup_scan(OfferDoc(call.products), lVirginia, call.currency,
                                   _get_offer_url_global(SERVICE_CODE_BACKUP)))
    /\ UNCHANGED locals

\* _normalize_to_gb_month of the public client and of the resolver
NormalizeToGbMonth ==
    /\ pc = "idle"
    /\ call.fn = "_normalize_to_gb_month"
    /\ pc' = "done"
    /\ ret' = Some([public |-> pub_normalize_to_gb_month(call.price_per_unit,
                                                         call.unit),
                    authenticated |-> res_normalize_to_gb_month(call.price_per_unit,
                                                                call.unit)])
    /\ UNCHANGED locals

\* the most pages the paginator yields, and the most entries of a PriceList
MaxPages == 2
MaxPageEntries == 2

\* get_products over the pages of one query
GetProductsPages ==
    /\ pc = "idle"
    /\ call.fn = "get_products"
    /\ pc' = "done"
    /\ ret' = Some(get_products(call.pages))
    /\ UNCHANGED locals


\* cost_engine.py. Volumes are whole GB, rates and costs are in 1/1000 USD,
\* overhead_pct is in hundredths (25 stands for 0.25).

\* versioned_gb: base_gb * (1.0 + overhead_pct)
versioned_gb(base_gb, overhead_pct) == (base_gb * (100 + overhead_pct)) \div 100

\* copy_multiplier without the clamp at zero
copy_multiplier_unclamped(num_copy_addons) == 1 + num_copy_addons

\* copy_multiplier: 1.0 + max(0, num_copy_addons)
copy_multiplier(num_copy_addons) ==
    1 + (IF num_copy_addons > 0 THEN num_copy_addons ELSE 0)

cost_from_flat_rate(gb, rate_per_gb_month) == gb * rate_per_gb_month

\* cost_from_tiers billing each band up to its upper bound, not its width
cost_from_tiers_upper_bound(gb, tiers) ==
    LET RECURSIVE loop(_, _, _)
        loop(i, remaining, total) ==
            IF i > Len(tiers) \/ remaining <= 0
            THEN total
            ELSE LET band == tiers[i]
                     width == IF band.to_gb # Inf THEN band.to_gb ELSE remaining
                     band_size == IF remaining <= width THEN remaining ELSE width
                 IN  loop(i + 1, remaining - band_size,
                          IF band_size > 0
                          THEN total + band_size * band.rate_per_gb_month
                          ELSE total)
    IN  loop(1, gb, 0)

\* cost_from_tiers: the loop over the bands in the order given
cost_from_tiers(gb, tiers) ==
    LET RECURSIVE loop(_, _, _)
        loop(i, remaining, total) ==
            IF i > Len(tiers) \/ remaining <= 0
            THEN total
            ELSE LET band == tiers[i]
                     width == IF band.to_gb # Inf THEN band.to_gb - band.from_gb
                                                  ELSE remaining
                     band_size == IF remaining <= width THEN remaining ELSE width
                 IN  loop(i + 1, remaining - band_size,
                          IF band_size > 0
                          THEN total + band_size * band.rate_per_gb_month
                          ELSE total)
    IN  loop(1, gb, 0)

\* the loop of cost_from_tiers, band by band: the band_size taken from each band
\* the loop reaches and the remaining volume after it
band_sizes(gb, tiers) ==
    LET RECURSIVE loop(_, _)
        loop(i, remaining) ==
            IF i > Len(tiers) \/ remaining <= 0
            THEN <<>>
            ELSE LET band == tiers[i]
                     width == IF band.to_gb # Inf THEN band.to_gb - band.from_gb
                                                  ELSE remaining
                     band_size == IF remaining <= width THEN remaining ELSE width
                 IN  <<[band_size |-> band_size, billed |-> band_size > 0,
                        remaining |-> remaining - band_size]>>
                     \o loop(i + 1, remaining - band_size)
    IN  loop(1, gb)

aws_backup_total(base_gb, rate_per_gb_month, copy_mult, flat_addon_usd) ==
    LET base_cost == cost_from_flat_rate(base_gb, rate_per_gb_month)
    IN  base_cost * copy_mult + flat_addon_usd

\* s3_versioning_total with the add-on inside the multiplication
s3_versioning_total_addon_multiplied(base_gb, overhead_pct, tiers, copy_mult, flat_addon_usd) ==
    LET v_gb == versioned_gb(base_gb, overhead_pct)
        base_cost == cost_from_tiers(v_gb, tiers)
    IN  (base_cost + flat_addon_usd) * copy_mult

s3_versioning_total(base_gb, overhead_pct, tiers, copy_mult, flat_addon_usd) ==
    LET v_gb == versioned_gb(base_gb, overhead_pct)
        base_cost == cost_from_tiers(v_gb, tiers)
    IN  base_cost * copy_mult + flat_addon_usd

\* delta_pct without the test for a reference of 0
delta_pct_unguarded(cost, reference) ==
    [num |-> (cost - reference) * 100, den |-> reference]

\* delta_pct: the quotient is kept as the fraction num / den; a fraction with
\* den = 0 stands for a division by zero
delta_pct(cost, reference) ==
    IF reference = 0
    THEN [num |-> 0, den |-> 1]
    ELSE [num |-> (cost - reference) * 100, den |-> reference]

CostFromTiers ==
    /\ pc = "idle"
    /\ call.fn = "cost_from_tiers"
    /\ pc' = "done"
    /\ ret' = Some(cost_from_tiers(call.gb, call.tiers))
    /\ UNCHANGED locals

AwsBackupTotal ==
    /\ pc = "idle"
    /\ call.fn = "aws_backup_total"
    /\ pc' = "done"
    /\ ret' = Some(aws_backup_total(call.base_gb, call.rate_per_gb_month,
                                    call.copy_mult, call.flat_addon_usd))
    /\ UNCHANGED locals

S3VersioningTotal ==
    /\ pc = "idle"
    /\ call.fn = "s3_versioning_total"
    /\ pc' = "done"
    /\ ret' = Some(s3_versioning_total(call.base_gb, call.overhead_pct, call.tiers,
                                       call.copy_mult, call.flat_addon_usd))
    /\ UNCHANGED locals

DeltaPct ==
    /\ pc = "idle"
    /\ call.fn = "delta_pct"
    /\ pc' = "done"
    /\ ret' = Some(delta_pct(call.cost, call.reference))
    /\ UNCHANGED locals


CopyMultiplier ==
    /\ pc = "idle"
    /\ call.fn = "copy_multiplier"
    /\ pc' = "done"
    /\ ret' = Some(copy_multiplier(call.num_copy_addons))
    /\ UNCHANGED locals

GetLocationForRegion ==
    /\ pc = "idle"
    /\ call.fn = "get_location_for_region"
    /\ pc' = "done"
    /\ ret' = Some(get_location_for_region(call.region_code))
    /\ UNCHANGED locals

GetRegionForLocation ==
    /\ pc = "idle"
    /\ call.fn = "get_region_for_location"
    /\ pc' = "done"
    /\ ret' = Some(get_region_for_location(call.location))
    /\ UNCHANGED locals

InitFn ==
    /\ pc = "idle"
    /\ LET
        \* what a Storage query for the location can hold: the products of the
        \* location and class, a second reserved-only product at another rate and
        \* a product whose price is the text "NaN"
        ScanLists ==
            LET storage == {p \in Products : p.attributes = StdAttrs}
                           \cup {Product("RESERVED2", StdAttrs, <<>>, <<dFlat>>),
                                 Product("NAN", StdAttrs,
                                         <<Dim(Usd(NumStr(NaN)), uGbMo, Absent, Absent)>>,
                                         <<>>)}
            IN  UNION {{ps \in [1..n -> storage] :
                           \A i, j \in 1..n : i # j => ps[i].sku # ps[j].sku} :
                       n \in 0..MaxScanProducts}
        ScanCalls(fn) ==
            {[fn |-> fn, products |-> ps, storage_class |-> scStandard, currency |-> c] :
                ps \in ScanLists, c \in Currencies}
        \* the products and requests the S3 product filter meets: families, locations
        \* and class attributes (one absent, one padded) against requested classes
        MatchCalls ==
            {[fn |-> "pub_s3_product_match", attrs |-> Attrs(f, l, c),
              region_code |-> rUsEast1, storage_class |-> w] :
                f \in {(* "Storage" *) <<"S","t","o","r","a","g","e">>, (* "API Request" *) <<"A","P","I"," ","R","e","q","u","e","s","t">>, (* "storage" *) <<"s","t","o","r","a","g","e">>},
                l \in {lVirginia, (* "EU (Ireland)" *) <<"E","U"," ","(","I","r","e","l","a","n","d",")">>},
                c \in {aGeneralPurpose, (* "Glacier" *) <<"G","l","a","c","i","e","r">>, <<>>,
                       (* "Standard" *) <<"S","t","a","n","d","a","r","d">>,
                       (* "Standard-IA" *) <<"S","t","a","n","d","a","r","d","-","I","A">>,
                       (* " glacier " *) <<" ","g","l","a","c","i","e","r"," ">>},
                w \in {scStandard, (* "Glacier" *) <<"G","l","a","c","i","e","r">>,
                       (* "standard " *) <<"s","t","a","n","d","a","r","d"," ">>,
                       (* "GLACIER" *) <<"G","L","A","C","I","E","R">>,
                       (* "IA" *) <<"I","A">>,
                       (* "Standard-IA" *) <<"S","t","a","n","d","a","r","d","-","I","A">>,
                       (* "Deep Archive" *) <<"D","e","e","p"," ","A","r","c","h","i","v","e">>}}
        \* price dimensions with each of the four range fields absent, numeric text,
        \* a number or text that is no number
        RangeCalls ==
            {[fn |-> "_range_from_dim",
              dim |-> [Dim(Usd(NumStr(23)), uGbMo, b, e) EXCEPT !.startingRange = s,
                                                                  !.endingRange = t]] :
                b \in {Absent, NumStr(0), NumStr(50), Num(0), BadStr},
                s \in {Absent, NumStr(50)},
                e \in {Absent, NumStr(50), NumStr(500), BadStr},
                t \in {Absent, NumStr(500)}}
        \* prices and unit labels for the two copies of _normalize_to_gb_month
        NormalizeCalls ==
            {[fn |-> "_normalize_to_gb_month", price_per_unit |-> p, unit |-> u] :
                p \in {0, 23, 1000},
                u \in {uGbMo, (* " GB " *) <<" ","G","B"," ">>, (* "Hrs" *) <<"H","r","s">>, <<>>,
                       (* "gb-mo" *) <<"g","b","-","m","o">>,
                       (* "GB-Month" *) <<"G","B","-","M","o","n","t","h">>,
                       (* " per GB-Mo " *) <<" ","p","e","r"," ","G","B","-","M","o"," ">>,
                       (* "gb" *) <<"g","b">>,
                       (* "GBs" *) <<"G","B","s">>,
                       (* "GB-Hrs" *) <<"G","B","-","H","r","s">>,
                       (* "Requests" *) <<"R","e","q","u","e","s","t","s">>}}
        \* what the paginator can yield under SpecFn: pages of decodable and
        \* undecodable entries
        PageCalls ==
            LET entries == {Decodable(p) : p \in {q \in Products : q.sku \in {"FLAT", "FREE"}}}
                           \cup {Undecodable}
                price_lists == UNION {[1..n -> entries] : n \in 0..MaxPageEntries}
            IN  {[fn |-> "get_products", pages |-> pages] :
                    pages \in UNION {[1..n -> price_lists] : n \in 0..MaxPages}}
        \* band lists for the cost engine: one open-ended band, the two bands of the
        \* S3 price list, three bands, and lists that are unsorted, leave a gap,
        \* have no open-ended band, have a band that ends below its start, or are empty
        TierLists ==
            {<<_build_tier_band(0, Inf, 23)>>,
             <<_build_tier_band(0, Inf, 0)>>,
             <<_build_tier_band(0, 51200, 23), _build_tier_band(51200, Inf, 22)>>,
             <<_build_tier_band(0, 50, 23), _build_tier_band(50, 500, 22),
               _build_tier_band(500, Inf, 21)>>,
             <<_build_tier_band(51200, Inf, 22), _build_tier_band(0, 51200, 23)>>,
             <<_build_tier_band(0, 50, 23), _build_tier_band(100, Inf, 22)>>,
             <<_build_tier_band(0, 50, 23)>>,
             <<_build_tier_band(100, 50, 23), _build_tier_band(0, Inf, 22)>>,
             <<>>}
        TierCalls ==
            {[fn |-> "cost_from_tiers", gb |-> gb, tiers |-> tiers] :
                gb \in {-5, 0, 30, 50, 600, 40960, 51200, 61440}, tiers \in TierLists}
        BackupTotalCalls ==
            {[fn |-> "aws_backup_total", base_gb |-> gb, rate_per_gb_month |-> rate,
              copy_mult |-> copy_multiplier(n), flat_addon_usd |-> addon] :
                gb \in {0, 1000}, rate \in {0, 50}, n \in {-1, 0, 1, 2},
                addon \in {0, 5000}}
        VersioningTotalCalls ==
            {[fn |-> "s3_versioning_total", base_gb |-> gb, overhead_pct |-> pct,
              tiers |-> tiers, copy_mult |-> copy_multiplier(n),
              flat_addon_usd |-> addon] :
                gb \in {0, 1000, 48000}, pct \in {0, 25}, tiers \in TierLists,
                n \in {0, 1}, addon \in {0, 5000}}
        DeltaCalls ==
            {[fn |-> "delta_pct", cost |-> cost, reference |-> reference] :
                cost \in {-20, 0, 50, 80, 100}, reference \in {-50, 0, 80, 100}}
        MultiplierCalls ==
            {[fn |-> "copy_multiplier", num_copy_addons |-> n] : n \in -3..3}
        \* region codes and locations as callers write them: the table's own, in
        \* upper case, padded, cut short, and strings the table does not hold
        UpperOf(s) ==
            [i \in 1..Len(s) |->
                IF \E j \in 1..Len(LowerChars) : LowerChars[j] = s[i]
                THEN UpperChars[CHOOSE j \in 1..Len(LowerChars) : LowerChars[j] = s[i]]
                ELSE s[i]]
        TableCodes == {REGION_TO_LOCATION[i][1] : i \in 1..Len(REGION_TO_LOCATION)}
        TableLocations == {REGION_TO_LOCATION[i][2] : i \in 1..Len(REGION_TO_LOCATION)}
        LocationCalls ==
            {[fn |-> "get_location_for_region", region_code |-> r] :
                r \in TableCodes \cup {UpperOf(c) : c \in TableCodes}
                      \cup {<<" ", "U">> \o Tail(c) \o <<" ">> : c \in TableCodes}
                      \cup {SubSeq(c, 1, Len(c) - 2) : c \in TableCodes}
                      \cup {rUnknown, <<>>}}
        RegionCalls ==
            {[fn |-> "get_region_for_location", location |-> l] :
                l \in TableLocations \cup {Lower(l) : l \in TableLocations}
                      \cup {l \o <<" ">> : l \in TableLocations}
                      \cup {(* "Unknown Location" *) <<"U","n","k","n","o","w","n"," ","L","o","c","a","t","i","o","n">>,
                            rUsEast1, <<>>}}
       IN
       \/ call \in ScanCalls("resolve_s3_storage_public")
       \/ call \in ScanCalls("resolve_s3_storage")
       \/ call \in ScanCalls("resolve_aws_backup_storage")
       \/ call \in ScanCalls("resolve_aws_backup_storage_public")
       \/ call \in MatchCalls
       \/ call \in RangeCalls
       \/ call \in NormalizeCalls
       \/ call \in PageCalls
       \/ call \in TierCalls
       \/ call \in BackupTotalCalls
       \/ call \in VersioningTotalCalls
       \/ call \in DeltaCalls
       \/ call \in MultiplierCalls
       \/ call \in LocationCalls
       \/ call \in RegionCalls
    /\ index = EmptyObject
    /\ service_codes = <<>>
    /\ ci = 0
    /\ url = None
    /\ fetch_error = <<>>
    /\ pub_result = None
    /\ fetched = <<>>
    /\ auth_log = <<>>
    /\ ret = None
    /\ scanned = None
    /\ _store = <<>>
    /\ now = 0
    /\ resolved = <<>>
    /\ threads = <<>>
    /\ session = <<>>

NextFn ==
    \/ PublicS3Scan
    \/ AuthS3Scan
    \/ AuthBackupScan
    \/ PublicBackupScan
    \/ S3ProductMatch
    \/ RangeFromDim
    \/ NormalizeToGbMonth
    \/ GetProductsPages
    \/ CostFromTiers
    \/ AwsBackupTotal
    \/ S3VersioningTotal
    \/ DeltaPct
    \/ CopyMultiplier
    \/ GetLocationForRegion
    \/ GetRegionForLocation

SpecFn == InitFn /\ [][NextFn]_vars

(***************************************************************************)
(* cache.py: TTLCache, and main.py: the two pricing endpoints around it    *)
(***************************************************************************)
\* the last reading of time.monotonic() the model reaches
MaxTime == 2

\* PRICING_CACHE_TTL_SECONDS; the clock counts days, the default of 86400
\* seconds is 1
CACHE_TTL == 1

\* TTLCache._key for the keyword arguments the endpoints pass: "k=v" for each
\* argument that is not None, in the order of the argument names, joined by
\* "|".  storage_class is None where the caller does not pass it.
_key(service, region, currency, storage_class) ==
    <<"c","u","r","r","e","n","c","y","=">> \o currency
      \o <<"|","r","e","g","i","o","n","=">> \o region
      \o <<"|","s","e","r","v","i","c","e","=">> \o service
      \o (IF storage_class = None THEN <<>>
          ELSE <<"|","s","t","o","r","a","g","e","_","c","l","a","s","s","=">> \o storage_class[1])

\* TTLCache.get that never misses an entry it holds
TTLCache_get_never_expires(store, k, t) ==
    IF k \notin DOMAIN store THEN [store |-> store, out |-> None]
    ELSE [store |-> store, out |-> Some(store[k])]

\* TTLCache.get at clock reading t: the store it leaves and what it returns
TTLCache_get(store, k, t) ==
    IF k \notin DOMAIN store THEN [store |-> store, out |-> None]
    ELSE IF t - store[k].cached_at > CACHE_TTL
         THEN [store |-> [x \in DOMAIN store \ {k} |-> store[x]], out |-> None]
         ELSE [store |-> store, out |-> Some(store[k])]

\* TTLCache.set that drops the value
TTLCache_set_nothing(store, value, k, t) == store

\* TTLCache.set at clock reading t
TTLCache_set(store, value, k, t) ==
    [x \in DOMAIN store \cup {k} |->
        IF x = k THEN [val |-> value, cached_at |-> t] ELSE store[x]]

\* TTLCache.invalidate doing what invalidate_all does
TTLCache_invalidate_everything(store, k) ==
    [store |-> <<>>, out |-> k \in DOMAIN store]

\* TTLCache.invalidate: the store it leaves and what it returns
TTLCache_invalidate(store, k) ==
    IF k \in DOMAIN store THEN [store |-> [x \in DOMAIN store \ {k} |-> store[x]], out |-> TRUE]
    ELSE [store |-> store, out |-> FALSE]


\* GET /api/pricing/aws-backup: the whole handler; the resolver's answer is an input
GetAwsBackupPricing ==
    \E region \in {rUsEast1, rUnknown}, currency \in {<<"U","S","D">>},
       refresh \in BOOLEAN,
       answer \in {Raised,
                   Returned(ErrorResult(<<"No matching product found.">>, None))}
                  \cup {Returned(PricingResult(Some(r), <<>>, "USD", Some(<<"S","K","U">>), None,
                                           Some(<<"J","R","T","C">>), None, None, None)) :
                      r \in {50}}:
        LET k == _key(<<"A","W","S"," ","B","a","c","k","u","p">>, region, currency, None)
            hit == TTLCache_get(IF refresh
                                THEN TTLCache_invalidate(_store, k).store
                                ELSE _store, k, now)
            outcome == IF get_location_for_region(region) = None
                       THEN Returned(ErrorResult(<<"Unknown region: ">> \o region, None))
                       ELSE answer
            result == outcome.result
            data == [rate_per_gb_month |-> result.rate_per_gb_month,
                     currency |-> result.currency, unit |-> result.unit,
                     sku |-> result.sku,
                     product_attributes |-> result.product_attributes,
                     term_code |-> result.term_code,
                     price_dimension |-> result.price_dimension,
                     raw_filter |-> result.raw_filter_used]
        IN /\ pc = "serving"
           /\ call' = [fn |-> "get_aws_backup_pricing", region |-> region,
                       currency |-> currency, storageClass |-> None,
                       refresh |-> refresh]
           /\ IF hit.out # None
              THEN /\ resolved' = <<>>
                   /\ _store' = hit.store
                   /\ ret' = Some([cached_at |-> hit.out[1].cached_at,
                                   from_cache |-> TRUE] @@ hit.out[1].val)
              ELSE /\ resolved' = <<[fn |-> "resolve_aws_backup_storage", region_code |-> region,
                                     storage_class |-> None,
                                     currency |-> currency,
                                     outcome |-> outcome]>>
                   /\ IF outcome.raised
                      THEN /\ _store' = hit.store
                           /\ ret' = Some([raised |-> TRUE])
                      ELSE IF result.error # <<>>
                      THEN /\ _store' = hit.store
                           /\ ret' = Some([error |-> result.error, rate_per_gb_month |-> None,
                                           sku |-> result.sku,
                                           product_attributes |-> result.product_attributes,
                                           term_code |-> result.term_code,
                                           raw_filter |-> result.raw_filter_used])
                      ELSE /\ _store' = TTLCache_set(hit.store, data, k, now)
                           /\ ret' = Some([cached_at |-> now,
                                           from_cache |-> FALSE] @@ data)
           /\ UNCHANGED <<pc, now, resolution, threads, session>>

\* GET /api/pricing/s3-storage: the whole handler; the resolver's answer is an input
GetS3StoragePricing ==
    \E region \in {rUsEast1, rUnknown}, currency \in {<<"U","S","D">>},
       storageClass \in {scStandard},
       refresh \in BOOLEAN,
       answer \in {Raised,
                   Returned(ErrorResult(<<"No matching product found.">>, None))}
                  \cup {Returned(PricingResult(t[1], t[2], "USD", Some(<<"S","K","U">>), None,
                                           Some(<<"J","R","T","C">>), None, None, None)) :
                      t \in {<<Some(23), <<>> >>,
                              <<None, <<_build_tier_band(0, 51200, 23),
                                        _build_tier_band(51200, Inf, 22)>> >>}}:
        LET k == _key(<<"A","m","a","z","o","n"," ","S","3">>, region, currency, Some(storageClass))
            hit == TTLCache_get(IF refresh
                                THEN TTLCache_invalidate(_store, k).store
                                ELSE _store, k, now)
            outcome == IF get_location_for_region(region) = None
                       THEN Returned(ErrorResult(<<"Unknown region: ">> \o region, None))
                       ELSE answer
            result == outcome.result
            data == [rate_per_gb_month |-> result.rate_per_gb_month,
                     \* an open band's to_gb becomes the sentinel 1e40, here the
                     \* number after Inf
                     tiers |-> [i \in 1..Len(result.tiers) |->
                                  [result.tiers[i] EXCEPT
                                     !.to_gb = IF @ = Inf THEN Inf + 1 ELSE @]],
                     currency |-> result.currency, unit |-> result.unit,
                     sku |-> result.sku,
                     product_attributes |-> result.product_attributes,
                     term_code |-> result.term_code,
                     price_dimension |-> result.price_dimension,
                     raw_filter |-> result.raw_filter_used]
        IN /\ pc = "serving"
           /\ call' = [fn |-> "get_s3_storage_pricing", region |-> region,
                       currency |-> currency, storageClass |-> Some(storageClass),
                       refresh |-> refresh]
           /\ IF hit.out # None
              THEN /\ resolved' = <<>>
                   /\ _store' = hit.store
                   /\ ret' = Some([cached_at |-> hit.out[1].cached_at,
                                   from_cache |-> TRUE] @@ hit.out[1].val)
              ELSE /\ resolved' = <<[fn |-> "resolve_s3_storage", region_code |-> region,
                                     storage_class |-> Some(storageClass),
                                     currency |-> currency,
                                     outcome |-> outcome]>>
                   /\ IF outcome.raised
                      THEN /\ _store' = hit.store
                           /\ ret' = Some([raised |-> TRUE])
                      ELSE IF result.error # <<>>
                      THEN /\ _store' = hit.store
                           /\ ret' = Some([error |-> result.error, rate_per_gb_month |-> None,
                                           tiers |-> <<>>, sku |-> result.sku,
                                           product_attributes |-> result.product_attributes,
                                           raw_filter |-> result.raw_filter_used])
                      ELSE /\ _store' = TTLCache_set(hit.store, data, k, now)
                           /\ ret' = Some([cached_at |-> now,
                                           from_cache |-> FALSE] @@ data)
           /\ UNCHANGED <<pc, now, resolution, threads, session>>

\* time.monotonic() moves on
Tick ==
    /\ pc = "serving"
    /\ now < MaxTime
    /\ now' = now + 1
    /\ UNCHANGED <<pc, call, ret, _store, resolved, resolution, threads, session>>

\* pricing_cache.get(...) called on its own
CacheGet ==
    \E k \in {_key(<<"A","W","S"," ","B","a","c","k","u","p">>, rUsEast1, <<"U","S","D">>, None)}:
        /\ pc = "serving"
        /\ call' = [fn |-> "get", k |-> k]
        /\ _store' = TTLCache_get(_store, k, now).store
        /\ ret' = Some(TTLCache_get(_store, k, now).out)
        /\ resolved' = <<>>
        /\ UNCHANGED <<pc, now, resolution, threads, session>>

\* pricing_cache.set(value, ...) called on its own
CacheSet ==
    \E k \in {_key(<<"A","W","S"," ","B","a","c","k","u","p">>, rUsEast1, <<"U","S","D">>, None)},
       value \in {[rate_per_gb_month |-> Some(r)] : r \in {21}}:
        /\ pc = "serving"
        /\ call' = [fn |-> "set", k |-> k, value |-> value]
        /\ _store' = TTLCache_set(_store, value, k, now)
        /\ ret' = Some(None)
        /\ resolved' = <<>>
        /\ UNCHANGED <<pc, now, resolution, threads, session>>

\* pricing_cache.invalidate(...) called on its own
CacheInvalidate ==
    \E k \in {_key(<<"A","W","S"," ","B","a","c","k","u","p">>, rUsEast1, <<"U","S","D">>, None)}:
        /\ pc = "serving"
        /\ call' = [fn |-> "invalidate", k |-> k]
        /\ _store' = TTLCache_invalidate(_store, k).store
        /\ ret' = Some(TTLCache_invalidate(_store, k).out)
        /\ resolved' = <<>>
        /\ UNCHANGED <<pc, now, resolution, threads, session>>

\* the server after start-up: an empty cache
InitCache ==
    /\ pc = "serving"
    /\ call = NoCall
    /\ index = EmptyObject
    /\ service_codes = <<>>
    /\ ci = 0
    /\ url = None
    /\ fetch_error = <<>>
    /\ pub_result = None
    /\ fetched = <<>>
    /\ auth_log = <<>>
    /\ ret = None
    /\ scanned = None
    /\ _store = <<>>
    /\ now = 0
    /\ resolved = <<>>
    /\ threads = <<>>
    /\ session = <<>>

NextCache ==
    \/ GetAwsBackupPricing
    \/ GetS3StoragePricing
    \/ CacheGet
    \/ CacheSet
    \/ CacheInvalidate
    \/ Tick

SpecCache == InitCache /\ [][NextCache]_vars

(***************************************************************************)
(* cache.py under concurrent callers: the request handlers run in a thread *)
(* pool and share pricing_cache; a step is one dictionary operation        *)
(***************************************************************************)
\* the callers, and the calls each of them makes
MaxThreads == 2
MaxCalls == 2

\* the one key the callers contend for
SharedKey == _key(<<"A","W","S"," ","B","a","c","k","u","p">>, rUsEast1, <<"U","S","D">>, None)


\* a caller enters get, set or invalidate
ThreadCall ==
    \E t \in 1..MaxThreads, op \in {"get", "set", "invalidate"} :
        /\ pc = "serving"
        /\ threads[t].pc \in {"idle", "returned"}
        /\ threads[t].calls < MaxCalls
        /\ threads' = [threads EXCEPT ![t] =
                          [op |-> op,
                           pc |-> IF op = "set" THEN "write" ELSE "contains",
                           val |-> None, cached_at |-> 0, out |-> None,
                           calls |-> @.calls + 1]]
        /\ UNCHANGED <<pc, call, ret, _store, now, resolved, resolution, session>>

\* get: if k not in self._store: return None
GetContains ==
    \E t \in 1..MaxThreads :
        /\ pc = "serving"
        /\ threads[t].op = "get"
        /\ threads[t].pc = "contains"
        /\ threads' = [threads EXCEPT ![t] =
                          [@ EXCEPT !.pc = IF SharedKey \in DOMAIN _store THEN "read" ELSE "returned"]]
        /\ UNCHANGED _store
        /\ UNCHANGED <<pc, call, ret, now, resolved, resolution, session>>

\* get: val, cached_at = self._store[k], a KeyError when the key is gone; then the
\* test of the age
GetRead ==
    \E t \in 1..MaxThreads :
        /\ pc = "serving"
        /\ threads[t].op = "get"
        /\ threads[t].pc = "read"
        /\ threads' = [threads EXCEPT ![t] =
              IF SharedKey \notin DOMAIN _store THEN [@ EXCEPT !.pc = "failed"]
              ELSE IF now - _store[SharedKey].cached_at > CACHE_TTL
              THEN [@ EXCEPT !.pc = "expire",
                             !.val = Some(_store[SharedKey].val),
                             !.cached_at = _store[SharedKey].cached_at]
              ELSE [@ EXCEPT !.pc = "returned",
                             !.val = Some(_store[SharedKey].val),
                             !.cached_at = _store[SharedKey].cached_at,
                             !.out = Some(_store[SharedKey])]]
        /\ UNCHANGED _store
        /\ UNCHANGED <<pc, call, ret, now, resolved, resolution, session>>

\* get: del self._store[k] of an expired entry, a KeyError when the key is gone
GetExpire ==
    \E t \in 1..MaxThreads :
        /\ pc = "serving"
        /\ threads[t].op = "get"
        /\ threads[t].pc = "expire"
        /\ threads' = [threads EXCEPT ![t] =
                          [@ EXCEPT !.pc = IF SharedKey \in DOMAIN _store THEN "returned" ELSE "failed"]]
        /\ _store' = [x \in DOMAIN _store \ {SharedKey} |-> _store[x]]
        /\ UNCHANGED <<pc, call, ret, now, resolved, resolution, session>>

\* set: self._store[k] = (value, time.monotonic()); the caller writes its own
\* number as the value
SetWrite ==
    \E t \in 1..MaxThreads :
        /\ pc = "serving"
        /\ threads[t].op = "set"
        /\ threads[t].pc = "write"
        /\ threads' = [threads EXCEPT ![t] =
                          [@ EXCEPT !.pc = "returned"]]
        /\ _store' = TTLCache_set(_store, t, SharedKey, now)
        /\ UNCHANGED <<pc, call, ret, now, resolved, resolution, session>>

\* invalidate: if k in self._store, else return False
InvalidateContains ==
    \E t \in 1..MaxThreads :
        /\ pc = "serving"
        /\ threads[t].op = "invalidate"
        /\ threads[t].pc = "contains"
        /\ threads' = [threads EXCEPT ![t] =
                          [@ EXCEPT !.pc = IF SharedKey \in DOMAIN _store THEN "delete" ELSE "returned",
                                    !.out = IF SharedKey \in DOMAIN _store THEN None ELSE Some(FALSE)]]
        /\ UNCHANGED _store
        /\ UNCHANGED <<pc, call, ret, now, resolved, resolution, session>>

\* invalidate: del self._store[k], a KeyError when the key is gone; return True
InvalidateDelete ==
    \E t \in 1..MaxThreads :
        /\ pc = "serving"
        /\ threads[t].op = "invalidate"
        /\ threads[t].pc = "delete"
        /\ threads' = [threads EXCEPT ![t] =
                          [@ EXCEPT !.pc = IF SharedKey \in DOMAIN _store THEN "returned" ELSE "failed",
                                    !.out = Some(SharedKey \in DOMAIN _store)]]
        /\ _store' = [x \in DOMAIN _store \ {SharedKey} |-> _store[x]]
        /\ UNCHANGED <<pc, call, ret, now, resolved, resolution, session>>

\* the server after start-up, with its request threads idle
InitThreads ==
    /\ pc = "serving"
    /\ call = NoCall
    /\ index = EmptyObject
    /\ service_codes = <<>>
    /\ ci = 0
    /\ url = None
    /\ fetch_error = <<>>
    /\ pub_result = None
    /\ fetched = <<>>
    /\ auth_log = <<>>
    /\ ret = None
    /\ scanned = None
    /\ _store = <<>>
    /\ now = 0
    /\ resolved = <<>>
    /\ threads = [t \in 1..MaxThreads |->
                    [op |-> "none", pc |-> "idle", val |-> None,
                     cached_at |-> 0, out |-> None, calls |-> 0]]
    /\ session = <<>>

NextThreads ==
    \/ ThreadCall
    \/ GetContains
    \/ GetRead
    \/ GetExpire
    \/ SetWrite
    \/ InvalidateContains
    \/ InvalidateDelete
    \/ Tick

SpecThreads == InitThreads /\ [][NextThreads]_vars

(***************************************************************************)
(* conversation/state.py and conversation/engine.py: chat_turn on a        *)
(* Session                                                                 *)
(***************************************************************************)
\* the turns that add to one session
MaxTurns == 3

\* Session.append
append(messages, role, content) ==
    Append(messages, [role |-> role, content |-> content])

\* chat_turn(session, user_message, image_base64, image_media_type): the whole
\* call.  Its inputs are the message, the environment (ANTHROPIC_API_KEY,
\* ANTHROPIC_MAX_TOKENS), whether the anthropic package can be imported, and
\* what client.messages.create does.  An image goes into the request to the
\* API only and is part of what create is given.
ChatTurn ==
    \E user_message \in {"", "How much for 5 TB?"},
       api_key \in {None, Some(""), Some("sk-key")},
       installed \in BOOLEAN,
       max_tokens \in {None, Some(<<"2","k">>)},
       api \in {[raised |-> TRUE, text |-> "Connection error."],
                [raised |-> FALSE, text |-> None],
                [raised |-> FALSE, text |-> Some("About 115 USD a month.")]} :
        LET \* int(os.environ.get("ANTHROPIC_MAX_TOKENS", "1024")) succeeds
            is_int == \/ max_tokens = None
                      \/ /\ max_tokens[1] # <<>>
                         /\ \A i \in DOMAIN max_tokens[1] :
                              max_tokens[1][i] \in {"0", "1", "2", "3", "4",
                                                    "5", "6", "7", "8", "9"}
            reply_text == IF api.raised
                          THEN "Sorry, the assistant encountered an error: "
                                 \o api.text
                          ELSE IF api.text # None THEN api.text[1] ELSE ""
            not_configured ==
                append(append(session, "user", user_message), "assistant",
                       "Conversation is not configured: ANTHROPIC_API_KEY is missing. Set it in .env to use the AI assistant.")
            not_installed ==
                append(append(session, "user", user_message), "assistant",
                       "Server error: anthropic package not installed. Add 'anthropic' to requirements.txt and reinstall.")
            answered ==
                append(append(session, "user",
                              IF user_message # "" THEN user_message
                              ELSE "[Image attached]"),
                       "assistant", reply_text)
        IN /\ pc = "chatting"
           /\ Len(session) < 2 * MaxTurns
           /\ call' = [fn |-> "chat_turn", user_message |-> user_message,
                       api_key |-> api_key,
                       installed |-> installed, max_tokens |-> max_tokens,
                       api |-> api]
           /\ IF api_key = None \/ api_key[1] = ""
              THEN /\ session' = not_configured
                   /\ ret' = Some([raised |-> FALSE,
                                   reply |-> not_configured[Len(not_configured)].content,
                                   recommendation |-> None])
              ELSE IF ~installed
              THEN /\ session' = not_installed
                   /\ ret' = Some([raised |-> FALSE,
                                   reply |-> not_installed[Len(not_installed)].content,
                                   recommendation |-> None])
              ELSE IF ~is_int
              THEN /\ session' = session
                   /\ ret' = Some([raised |-> TRUE, reply |-> "",
                                   recommendation |-> None])
              ELSE /\ session' = answered
                   /\ ret' = Some([raised |-> FALSE, reply |-> reply_text,
                                   recommendation |-> None])
           /\ UNCHANGED <<pc, _store, now, resolved, threads, resolution>>

\* a new Session: no messages
InitChat ==
    /\ pc = "chatting"
    /\ call = NoCall
    /\ index = EmptyObject
    /\ service_codes = <<>>
    /\ ci = 0
    /\ url = None
    /\ fetch_error = <<>>
    /\ pub_result = None
    /\ fetched = <<>>
    /\ auth_log = <<>>
    /\ ret = None
    /\ scanned = None
    /\ _store = <<>>
    /\ now = 0
    /\ resolved = <<>>
    /\ threads = <<>>
    /\ session = <<>>

NextChat == ChatTurn

SpecChat == InitChat /\ [][NextChat]_vars

(***************************************************************************)
(* Properties                                                              *)
(***************************************************************************)
Done == pc = "done"
Returns == ret # None /\ ~ret[1].raised
Result == ret[1].result

\* the region code, normalised, is a key of the rate table
InRateTable(region_code) ==
    \E i \in 1..Len(REGION_TO_LOCATION) :
        REGION_TO_LOCATION[i][1] = Lower(Strip(region_code))

\* the last use of the authenticated client
LastAuth == auth_log[Len(auth_log)]
\* the authenticated query answered, and the resolver scanned its products
AuthScanned == auth_log # <<>> /\ LastAuth.op = "get_products" /\ LastAuth.outcome = "ok"

\* the PricingResults the call has obtained or returned
ResultsSeen ==
    (IF Returns THEN {Result} ELSE {})
        \cup (IF pub_result # None THEN {pub_result[1]} ELSE {})

\* the public client has returned, to a resolver, a result with no error and
\* a flat rate (for S3: a flat rate or a non-empty tier list)
C1_PublicUsable ==
    /\ IsResolverFn(call.fn)
    /\ pub_result # None
    /\ pub_result[1].error = <<>>
    /\ \/ pub_result[1].rate_per_gb_month # None
       \/ call.fn = "resolve_s3_storage" /\ pub_result[1].tiers # <<>>

\* C1: in the two resolvers, once the public client has returned a result with
\* no error and a flat rate (for S3: a flat rate or a non-empty tier list), the
\* call is over, it returns that result's rate, tiers and metadata unchanged,
\* and the authenticated client was neither constructed nor queried.
C1_PublicResultWins ==
    C1_PublicUsable =>
        /\ Done
        /\ Returns
        /\ auth_log = <<>>
        /\ Result.rate_per_gb_month = pub_result[1].rate_per_gb_month
        /\ Result.tiers = pub_result[1].tiers
        /\ Result.unit = pub_result[1].unit
        /\ Result.currency = pub_result[1].currency
        /\ Result.sku = pub_result[1].sku
        /\ Result.product_attributes = pub_result[1].product_attributes
        /\ Result.term_code = pub_result[1].term_code
        /\ Result.price_dimension = pub_result[1].price_dimension
        /\ Result.raw_filter_used = pub_result[1].raw_filter_used
        /\ Result.error = <<>>

\* resolve_s3_storage has returned a partial tier list of the public client
C1_Witness ==
    /\ Done
    /\ C1_PublicUsable
    /\ call.fn = "resolve_s3_storage"
    /\ Len(Result.tiers) = 1
    /\ Result.tiers[1].to_gb # Inf
    /\ Result = pub_result[1]

\* C2: every PricingResult a resolve function returns with error set has no
\* flat rate and no tiers.
C2_ErrorHasNoPrice ==
    \A r \in ResultsSeen :
        r.error # <<>> => r.rate_per_gb_month = None /\ r.tiers = <<>>

\* a resolver returned the error result of an authenticated scan that found no
\* price, after the public client had returned an error result too
C2_Witness ==
    /\ Done
    /\ Returns
    /\ AuthScanned
    /\ Result.error # <<>>
    /\ pub_result[1].error # <<>>
    /\ pub_result[1].error # Result.error

\* C3: no PricingResult a resolve function returns has both a flat rate and a
\* non-empty tier list.
C3_RateXorTiers ==
    \A r \in ResultsSeen : ~(r.rate_per_gb_month # None /\ r.tiers # <<>>)

\* an S3 call returned two tier bands
C3_Witness ==
    /\ Done
    /\ Returns
    /\ Len(Result.tiers) = 2
    /\ Result.rate_per_gb_month = None

\* C4: no exception escapes resolve_aws_backup_storage or resolve_s3_storage:
\* whatever the public fetches and the authenticated client come to, the call
\* returns a PricingResult, and one without a price has error set and neither
\* rate nor tiers.
C4_NoExceptionEscapes ==
    (IsResolverFn(call.fn) /\ ret # None) =>
        /\ ~ret[1].raised
        /\ (Result.rate_per_gb_month = None /\ Result.tiers = <<>>)
              => Result.error # <<>>
        /\ Result.error # <<>>
              => (Result.rate_per_gb_month = None /\ Result.tiers = <<>>)

\* a price dimension the scans are to skip: pricePerUnit missing or not a
\* mapping, no entry for the currency, or a price float() rejects
Malformed(dim, currency) ==
    \/ dim.pricePerUnit.t # "dict"
    \/ IsNone(MapGet(dim.pricePerUnit.m, currency))
    \/ PyFloat(MapGet(dim.pricePerUnit.m, currency)) = None

WellFormedDims(dims, currency) ==
    SelectSeq(dims, LAMBDA dim : ~Malformed(dim, currency))

WithoutMalformedTerms(term_entries, currency) ==
    [i \in 1..Len(term_entries) |->
        [priceDimensions |->
            WellFormedDims(term_entries[i].priceDimensions, currency)]]

\* the products with their malformed price dimensions removed
WithoutMalformed(products, currency) ==
    [i \in 1..Len(products) |->
        [sku |-> products[i].sku, attributes |-> products[i].attributes,
         terms |-> [OnDemand |-> WithoutMalformedTerms(products[i].terms.OnDemand,
                                                       currency),
                    Reserved |-> WithoutMalformedTerms(products[i].terms.Reserved,
                                                       currency)]]]

\* the pages with the entries that do not decode removed
WithoutUndecodable(pages) ==
    [i \in 1..Len(pages) |-> SelectSeq(pages[i], LAMBDA entry : entry.value # <<>>)]

\* what the public function returns for a document
PublicScanOf(data, u) ==
    IF IsBackupFn(call.fn)
    THEN pub_backup_scan(data, location, call.currency, u)
    ELSE pub_s3_scan(data, location, call.storage_class, call.currency, u)

\* what the resolver's scan comes to for the products of a query
AuthScanOf(products) ==
    IF IsBackupFn(call.fn)
    THEN res_backup_scan(products, location, call.currency)
    ELSE res_s3_scan(products, location, call.storage_class, call.currency)

\* C5: in every product scan a malformed record is skipped without aborting
\* the scan: the call returns what it returns for the same input with the
\* malformed price dimensions and the undecodable page entries removed.
C5_MalformedSkipped ==
    /\ (Done /\ scanned # None /\ ~IsResolverFn(call.fn)) =>
          ret[1] = Returned(PublicScanOf(
                      OfferDoc(WithoutMalformed(scanned[1].products, call.currency)),
                      Result.raw_filter_used[1].url))
    /\ (Done /\ AuthScanned) =>
          ret[1] = AuthScanOf(WithoutMalformed(
                      get_products(WithoutUndecodable(LastAuth.pages)),
                      call.currency))

\* C6: for a region code absent from the rate table the call is over at once,
\* with an "Unknown region" error result, no GET and no use of the
\* authenticated client.
C6_UnknownRegionFailsFast ==
    (pc # "idle" /\ ~InRateTable(call.region_code)) =>
        /\ Done
        /\ Returns
        /\ Result = ErrorResult(<<"Unknown region: ">> \o call.region_code, None)
        /\ fetched = <<>>
        /\ auth_log = <<>>

\* a resolver was called with an unknown region
C6_Witness ==
    /\ Done
    /\ IsResolverFn(call.fn)
    /\ ~InRateTable(call.region_code)
    /\ Result.error # <<>>

\* C7: when the authenticated client could not be created, or its query
\* failed, for want of credentials, the resolver returns the public client's
\* error message when there is one, and its generic no-credentials message
\* only when the public client gave none.
C7_PublicErrorPreferred ==
    (Done /\ auth_log # <<>> /\ LastAuth.outcome = "NoCredentialsError") =>
        /\ Returns
        /\ Result.rate_per_gb_month = None
        /\ Result.tiers = <<>>
        /\ pub_result[1].error # <<>> => Result.error = pub_result[1].error
        /\ pub_result[1].error = <<>> =>
              Result.error \in
                 {<<"Pricing unavailable. Public price list failed; no AWS credentials for API fallback.">>,
                  <<"Public price list failed; no AWS credentials for API fallback.">>}

\* the query found no credentials and the resolver returned the message of a
\* public client that had met an HTTP error
C7_Witness ==
    /\ Done
    /\ auth_log # <<>>
    /\ LastAuth.op = "get_products"
    /\ LastAuth.outcome = "NoCredentialsError"
    /\ Result.error = pub_result[1].error
    /\ Len(Result.error) > 1
    /\ Result.error[2] = "HTTP "

\* the service codes whose documents the call may ask for
ServiceCodesOfCall ==
    IF IsBackupFn(call.fn)
    THEN {SERVICE_CODE_BACKUP} \cup {index.offers[i][1] : i \in 1..Len(index.offers)}
    ELSE {SERVICE_CODE_S3}

IsOfferGet(e) == e.site \in {"embedded", "global", "regional"}

\* what the public function has returned, if it has
PublicResults ==
    IF IsResolverFn(call.fn)
    THEN IF pub_result # None THEN {pub_result[1]} ELSE {}
    ELSE IF Returns THEN {Result} ELSE {}

C9_NoRefetchAfterFailure ==
    \A i, j \in 1..Len(fetched) :
        (i < j /\ fetched[i].url = fetched[j].url) => fetched[i].ok

\* the (start, end, rate) triples the S3 scan behind the returned result
\* collected, in the order collected
CollectedTriples ==
    IF AuthScanned
    THEN res_tiers_with_rates(ResOnDemandEntries(get_products(LastAuth.pages)),
                              call.currency)
    ELSE pub_tiers_with_rates(PubS3Entries(scanned[1].products, location,
                                           call.storage_class),
                              call.currency)

\* an S3 call returned the result of a product scan
S3Scanned ==
    /\ Done
    /\ Returns
    /\ ~IsBackupFn(call.fn)
    /\ AuthScanned \/ scanned # None

Occurrences(seq, x) == Cardinality({i \in 1..Len(seq) : seq[i] = x})

\* C10: in both S3 paths, one collected triple with an unbounded end gives a
\* result with that rate as rate_per_gb_month and no tiers; in every other
\* case the result has no flat rate and carries all the collected triples as
\* tiers, in ascending order of from_gb.
C10_FlatOrSortedTiers ==
    S3Scanned =>
        LET T == CollectedTriples
        IN  IF Len(T) = 1 /\ T[1][2] = Inf
            THEN /\ Result.rate_per_gb_month = Some(T[1][3])
                 /\ Result.tiers = <<>>
            ELSE /\ Result.rate_per_gb_month = None
                 /\ Len(Result.tiers) = Len(T)
                 /\ \A i, j \in 1..Len(Result.tiers) :
                       i < j => Result.tiers[i].from_gb <= Result.tiers[j].from_gb
                 /\ \A k \in 1..Len(T) :
                       Occurrences(Result.tiers, TierBands(T)[k])
                          = Occurrences(TierBands(T), TierBands(T)[k])

\* two triples were collected out of order and returned in order
C10_Witness ==
    /\ S3Scanned
    /\ Len(CollectedTriples) = 2
    /\ CollectedTriples[1][1] > CollectedTriples[2][1]
    /\ Len(Result.tiers) = 2
    /\ Result.tiers[1].from_gb < Result.tiers[2].from_gb

(***************************************************************************)
(* Properties of SpecFn                                                    *)
(***************************************************************************)
\* the function named fn has been applied
Applied(fn) == pc = "done" /\ call.fn = fn

\* the PricingResult an S3 scan returned, if it returned one
S3ScanResults ==
    IF Applied("resolve_s3_storage_public") THEN {ret[1]}
    ELSE IF Applied("resolve_s3_storage") /\ ~ret[1].raised THEN {ret[1].result}
    ELSE {}

\* C11: in every result with tiers that an S3 scan (public or authenticated)
\* returns, each band ends where the next one starts: to_gb of the earlier
\* band equals from_gb of the later one.
C11_TiersContiguous ==
    \A r \in S3ScanResults :
        \A i \in 1..(Len(r.tiers) - 1) : r.tiers[i].to_gb = r.tiers[i + 1].from_gb

\* the relaxed comparison of a class attribute with the requested class, both
\* trimmed and lower-cased
RelaxedClassMatch(attribute, requested) ==
    LET a == Lower(Strip(attribute))
        w == Lower(Strip(requested))
    IN  \/ a = w
        \/ \E i \in 0..(Len(w) - Len(a)) : SubSeq(w, i + 1, i + Len(a)) = a
        \/ \E i \in 0..(Len(a) - Len(w)) : SubSeq(a, i + 1, i + Len(w)) = w
        \/ /\ w = <<"s","t","a","n","d","a","r","d">>
           /\ \E i \in 0..(Len(a) - 7) :
                 SubSeq(a, i + 1, i + 7) = <<"g","e","n","e","r","a","l">>

\* C12: in resolve_s3_storage_public a product passes the filter (and so
\* contributes its price dimensions) if and only if its productFamily is
\* "Storage", its location is the canonical location of the region, and its
\* storage class matches the requested class under the relaxed comparison.
C12_S3ProductFilter ==
    Applied("pub_s3_product_match") =>
        (ret[1] <=> /\ call.attrs.productFamily = <<"S","t","o","r","a","g","e">>
                    /\ call.attrs.location = get_location_for_region(call.region_code)
                    /\ RelaxedClassMatch(call.attrs.storageClass, call.storage_class))

\* "Standard" was requested and a "General Purpose" product passed
C12_Witness ==
    /\ Applied("pub_s3_product_match")
    /\ ret[1]
    /\ call.attrs.storageClass = aGeneralPurpose
    /\ call.storage_class = scStandard

\* C13: for every price dimension the authenticated S3 path derives the same
\* (start, end) as _range_from_dim of the public path, whichever field names
\* the dimension uses and whatever their values.
C13_SameRange ==
    Applied("_range_from_dim") => ret[1].authenticated = ret[1].public

\* the positions <<product, dimension>> of the usable dimensions of one term
\* type in a product list
UsableAt(products, term_type, currency) ==
    UNION {{<<k, i>> : i \in {j \in 1..Len(DimsOf(products[k].terms[term_type])) :
                                res_dimension_step(
                                    DimsOf(products[k].terms[term_type])[j],
                                    currency) = "use"}} :
           k \in 1..Len(products)}

\* the first position of a set of positions, in document order
FirstAt(positions) ==
    CHOOSE x \in positions :
        \A y \in positions : x[1] < y[1] \/ (x[1] = y[1] /\ x[2] <= y[2])

\* the result is the dimension at position x of the term type
IsDimensionAt(r, products, term_type, x) ==
    LET dim == DimsOf(products[x[1]].terms[term_type])[x[2]]
    IN  /\ r.error = None
        /\ r.sku = Some(products[x[1]].sku)
        /\ r.term_code = Some(term_type)
        /\ r.price_dimension = Some(dim)
        /\ r.rate_per_gb_month = res_dimension_rate(dim, call.currency)

\* C14: the authenticated Backup scan returns the first usable OnDemand
\* dimension of the product list in document order; a Reserved dimension only
\* when no product has a usable OnDemand dimension, and then the first usable
\* one in document order, whatever the rates.
C14_BackupTermPreference ==
    (Applied("resolve_aws_backup_storage") /\ ~ret[1].raised) =>
        LET on_demand == UsableAt(call.products, "OnDemand", call.currency)
            reserved == UsableAt(call.products, "Reserved", call.currency)
            r == ret[1].result
        IN  IF on_demand # {}
            THEN IsDimensionAt(r, call.products, "OnDemand", FirstAt(on_demand))
            ELSE IF reserved # {}
            THEN IsDimensionAt(r, call.products, "Reserved", FirstAt(reserved))
            ELSE r.error # None /\ r.rate_per_gb_month = None

\* a product with a usable Reserved dimension at a lower rate comes first,
\* and the OnDemand dimension of the second product is returned
C14_Witness ==
    /\ Applied("resolve_aws_backup_storage")
    /\ ~ret[1].raised
    /\ Len(call.products) = 2
    /\ <<1, 1>> \in UsableAt(call.products, "Reserved", call.currency)
    /\ ret[1].result.term_code = Some("OnDemand")
    /\ ret[1].result.sku = Some(call.products[2].sku)
    /\ ret[1].result.rate_per_gb_month[1]
          > res_dimension_rate(call.products[1].terms.Reserved[1].priceDimensions[1],
                               call.currency)[1]

\* a product list with the Reserved terms of every product taken out
WithoutReserved(products) ==
    [i \in 1..Len(products) |-> [products[i] EXCEPT !.terms.Reserved = <<>>]]

\* C15: the public scans price OnDemand terms only: the result of a public
\* Backup or S3 scan is the result for the same products without their
\* Reserved terms, so a product priced only under Reserved terms contributes
\* no rate and no tier.
C15_PublicOnDemandOnly ==
    /\ Applied("resolve_aws_backup_storage_public") =>
          ret[1] = pub_backup_scan(OfferDoc(WithoutReserved(call.products)), lVirginia,
                                   call.currency,
                                   _get_offer_url_global(SERVICE_CODE_BACKUP))
    /\ Applied("resolve_s3_storage_public") =>
          ret[1] = pub_s3_scan(OfferDoc(WithoutReserved(call.products)), lVirginia,
                               call.storage_class, call.currency,
                               _get_offer_url_global(SERVICE_CODE_S3))

\* the only priced product of the document has Reserved terms alone, and the
\* public Backup scan found no price
C15_Witness ==
    /\ Applied("resolve_aws_backup_storage_public")
    /\ Len(call.products) = 1
    /\ call.products[1].terms.OnDemand = <<>>
    /\ UsableAt(call.products, "Reserved", call.currency) # {}
    /\ ret[1].rate_per_gb_month = None
    /\ ret[1].tiers = <<>>
    /\ ret[1].error # None

\* sub occurs in s
HasSubstring(s, sub) ==
    \E i \in 0..(Len(s) - Len(sub)) : SubSeq(s, i + 1, i + Len(sub)) = sub

\* a unit label that stands for GB-month
IsGbMonthUnit(unit) ==
    LET u == Lower(Strip(unit))
    IN  \/ HasSubstring(u, <<"g","b","-","m","o">>)
        \/ HasSubstring(u, <<"g","b","-","m","o","n","t","h">>)
        \/ u = <<"g","b">>

\* the PricingResult a scan returned, if it returned one
ScanResults ==
    IF Applied("resolve_aws_backup_storage_public") THEN {ret[1]}
    ELSE IF Applied("resolve_aws_backup_storage") /\ ~ret[1].raised
    THEN {ret[1].result}
    ELSE S3ScanResults

\* the dimensions of a product list, under either term type, whose unit
\* stands for GB-month
GbMonthDims(products) ==
    UNION {{<<k, t, i>> : i \in {j \in 1..Len(DimsOf(products[k].terms[t])) :
                                   IsGbMonthUnit(DimsOf(products[k].terms[t])[j].unit)}} :
           k \in 1..Len(products), t \in {"OnDemand", "Reserved"}}

\* C16: both copies of _normalize_to_gb_month return the price unchanged when
\* the unit, trimmed and lower-cased, contains "gb-mo" or "gb-month" or is
\* "gb", and None for every other unit, and they agree on every unit; in the
\* scans a dimension with another unit gives no rate and no tier.
C16_UnitNormalization ==
    /\ Applied("_normalize_to_gb_month") =>
          /\ ret[1].public = ret[1].authenticated
          /\ ret[1].public = IF IsGbMonthUnit(call.unit)
                             THEN Some(call.price_per_unit) ELSE None
    /\ \A r \in ScanResults :
          /\ (r.rate_per_gb_month # None \/ r.tiers # <<>>) =>
                IsGbMonthUnit(r.price_dimension[1].unit)
          /\ Len(r.tiers) + (IF r.rate_per_gb_month # None THEN 1 ELSE 0)
                <= Cardinality(GbMonthDims(call.products))

\* a padded, mixed-case "GB" label was taken by both copies, price unchanged
C16_Witness ==
    /\ Applied("_normalize_to_gb_month")
    /\ call.unit = (* " GB " *) <<" ","G","B"," ">>
    /\ call.price_per_unit = 23
    /\ ret[1].public = Some(23)
    /\ ret[1].authenticated = Some(23)

\* the positions <<page, entry>> of the entries that decode
DecodableAt(pages) ==
    UNION {{<<i, j>> : j \in {k \in 1..Len(pages[i]) : pages[i][k].value # <<>>}} :
           i \in 1..Len(pages)}

\* how many decodable entries come no later than position x
RankAt(pages, x) ==
    Cardinality({y \in DecodableAt(pages) :
                    y[1] < x[1] \/ (y[1] = x[1] /\ y[2] <= x[2])})

\* C17: get_products returns the decoded entries of all pages, page by page
\* and in the order of each page; an entry that does not decode is left out
\* and everything after it, on its page and on later pages, is still returned.
C17_AllPagesDecoded ==
    Applied("get_products") =>
        /\ Len(ret[1]) = Cardinality(DecodableAt(call.pages))
        /\ \A x \in DecodableAt(call.pages) :
              ret[1][RankAt(call.pages, x)] = call.pages[x[1]][x[2]].value[1]

\* the first page starts with an entry that does not decode, and the entry
\* after it and an entry of the second page are both returned
C17_Witness ==
    /\ Applied("get_products")
    /\ Len(call.pages) = 2
    /\ Len(call.pages[1]) = 2
    /\ call.pages[1][1].value = <<>>
    /\ DecodableAt(call.pages) = {<<1, 2>>, <<2, 1>>}
    /\ ret[1] = <<call.pages[1][2].value[1], call.pages[2][1].value[1]>>
    /\ ret[1][1] # ret[1][2]


\* The bands are sorted ascending, contiguous from 0 and end in an open-ended band.
WellFormedTiers(tiers) ==
    /\ Len(tiers) >= 1
    /\ tiers[1].from_gb = 0
    /\ tiers[Len(tiers)].to_gb = Inf
    /\ \A i \in 1..(Len(tiers) - 1) :
           /\ tiers[i].to_gb # Inf
           /\ tiers[i].from_gb < tiers[i].to_gb
           /\ tiers[i].to_gb = tiers[i + 1].from_gb

\* The part of [0, gb) that lies in the band [from_gb, to_gb).
PartInBand(gb, band) ==
    LET upper == IF band.to_gb = Inf \/ gb <= band.to_gb THEN gb ELSE band.to_gb
    IN  IF upper > band.from_gb THEN upper - band.from_gb ELSE 0

\* Rate times the part of [0, gb) in the band, summed over the bands.
RECURSIVE BilledByBand(_, _)
BilledByBand(gb, tiers) ==
    IF tiers = <<>>
    THEN 0
    ELSE PartInBand(gb, Head(tiers)) * Head(tiers).rate_per_gb_month
         + BilledByBand(gb, Tail(tiers))

\* C18: on bands that are sorted, contiguous from 0 and end open-ended,
\* cost_from_tiers bills each band its rate times the part of [0, gb) lying in
\* it; one band [0, unbounded) at rate r costs gb * r for gb >= 0, and with
\* bands [0, 51200) at a and [51200, unbounded) at b a volume above 51200 costs
\* 51200 * a + (gb - 51200) * b.
C18_CostFromTiers ==
    (Applied("cost_from_tiers") /\ WellFormedTiers(call.tiers)) =>
        /\ ret = Some(BilledByBand(call.gb, call.tiers))
        /\ (Len(call.tiers) = 1 /\ call.gb >= 0) =>
               ret = Some(call.gb * call.tiers[1].rate_per_gb_month)
        /\ (Len(call.tiers) = 2 /\ call.tiers[1].to_gb = 51200 /\ call.gb > 51200) =>
               ret = Some(51200 * call.tiers[1].rate_per_gb_month
                          + (call.gb - 51200) * call.tiers[2].rate_per_gb_month)

\* cost_from_tiers has priced a volume that reaches into the third of three bands.
C18_Witness ==
    /\ Applied("cost_from_tiers")
    /\ WellFormedTiers(call.tiers)
    /\ Len(call.tiers) = 3
    /\ call.gb > call.tiers[3].from_gb
    /\ ret = Some(50 * 23 + 450 * 22 + 100 * 21)

\* C19: aws_backup_total is (base_gb * rate) * copy_mult + flat_addon, and
\* s3_versioning_total is the tier price of base_gb * (1 + overhead) times
\* copy_mult plus flat_addon: the overhead is applied to the volume before the
\* bands are priced, and the add-on is added after the multiplication.
C19_Totals ==
    /\ Applied("aws_backup_total") =>
           ret = Some((call.base_gb * call.rate_per_gb_month) * call.copy_mult
                      + call.flat_addon_usd)
    /\ (Applied("s3_versioning_total") /\ WellFormedTiers(call.tiers)) =>
           ret = Some(BilledByBand((call.base_gb * (100 + call.overhead_pct)) \div 100,
                                   call.tiers) * call.copy_mult
                      + call.flat_addon_usd)

\* s3_versioning_total has priced a volume that crosses the 51200 GB boundary
\* only with its overhead, with two copies and a flat add-on.
C19_Witness ==
    /\ Applied("s3_versioning_total")
    /\ Len(call.tiers) = 2
    /\ WellFormedTiers(call.tiers)
    /\ call.base_gb < call.tiers[1].to_gb
    /\ versioned_gb(call.base_gb, call.overhead_pct) > call.tiers[1].to_gb
    /\ call.copy_mult = 2
    /\ call.flat_addon_usd = 5000
    /\ ret = Some((51200 * 23 + 8800 * 22) * 2 + 5000)

\* C20: delta_pct is exactly 0 whenever reference is 0, for every cost, with no
\* division by zero; for another reference it is (cost - reference) /
\* reference * 100, so delta_pct(100, 80) is 25 and delta_pct(80, 100) is -20.
C20_DeltaPct ==
    Applied("delta_pct") =>
        /\ ret[1].den # 0
        /\ call.reference = 0 => ret[1].num = 0
        /\ call.reference # 0 =>
               ret[1].num * call.reference = (call.cost - call.reference) * 100 * ret[1].den
        /\ (call.cost = 100 /\ call.reference = 80) => ret[1].num = 25 * ret[1].den
        /\ (call.cost = 80 /\ call.reference = 100) => ret[1].num = (-20) * ret[1].den

\* delta_pct has been applied to a non-zero cost and a reference of 0.
C20_Witness ==
    /\ Applied("delta_pct")
    /\ call.reference = 0
    /\ call.cost = 50
    /\ ret = Some([num |-> 0, den |-> 1])

\* C21: copy_multiplier(n) is 1 + max(0, n) for every integer n: a negative
\* count of add-ons counts as none, and the multiplier is never below 1.
C21_CopyMultiplier ==
    Applied("copy_multiplier") =>
        /\ ret[1] >= 1
        /\ call.num_copy_addons <= 0 => ret = Some(1)
        /\ call.num_copy_addons > 0 => ret = Some(1 + call.num_copy_addons)

\* copy_multiplier has been applied to a negative count.
C21_Witness ==
    /\ Applied("copy_multiplier")
    /\ call.num_copy_addons = -2
    /\ ret = Some(1)

\* The entries of the rate table.
TableEntries == 1..Len(REGION_TO_LOCATION)

\* C22: for every entry (code, location) of the rate table,
\* get_location_for_region(code) is location and get_region_for_location(location)
\* is code: the two lookups are inverses of each other over the whole table.
C22_RegionRoundTrip ==
    /\ Applied("get_location_for_region") =>
           \A i \in TableEntries :
               call.region_code = REGION_TO_LOCATION[i][1] =>
                   /\ ret = Some(REGION_TO_LOCATION[i][2])
                   /\ get_region_for_location(ret[1]) = call.region_code
    /\ Applied("get_region_for_location") =>
           \A i \in TableEntries :
               call.location = REGION_TO_LOCATION[i][2] =>
                   /\ ret = Some(REGION_TO_LOCATION[i][1])
                   /\ get_location_for_region(ret[1]) = call.location

\* get_region_for_location has mapped the location of the table's last entry
\* back to its code.
C22_Witness ==
    /\ Applied("get_region_for_location")
    /\ call.location = REGION_TO_LOCATION[Len(REGION_TO_LOCATION)][2]
    /\ ret = Some(<<"s","a","-","e","a","s","t","-","1">>)

\* a and b are the same text up to the case of their letters.
SameUpToCase(a, b) ==
    /\ Len(a) = Len(b)
    /\ \A k \in 1..Len(a) :
           \/ a[k] = b[k]
           \/ \E j \in 1..Len(UpperChars) : {a[k], b[k]} = {UpperChars[j], LowerChars[j]}

\* C23: get_location_for_region gives every upper or lower case spelling of a
\* table code the location of that code and gives None to a code that is not in
\* the table once stripped and lower-cased; get_region_for_location gives None
\* to every string that is not a location of the table.
C23_RegionLookup ==
    /\ Applied("get_location_for_region") =>
           /\ \A i \in TableEntries :
                  SameUpToCase(call.region_code, REGION_TO_LOCATION[i][1]) =>
                      ret = Some(REGION_TO_LOCATION[i][2])
           /\ (\A i \in TableEntries :
                   REGION_TO_LOCATION[i][1] # Lower(Strip(call.region_code))) =>
                  ret = Some(None)
    /\ (/\ Applied("get_region_for_location")
        /\ \A i \in TableEntries : REGION_TO_LOCATION[i][2] # call.location) =>
           ret = Some(None)

\* get_location_for_region has been given "US-EAST-1".
C23_Witness ==
    /\ Applied("get_location_for_region")
    /\ call.region_code = <<"U","S","-","E","A","S","T","-","1">>
    /\ ret = Some(lVirginia)

RECURSIVE BilledVolume(_)
BilledVolume(walk) ==
    IF walk = <<>>
    THEN 0
    ELSE (IF Head(walk).billed THEN Head(walk).band_size ELSE 0) + BilledVolume(Tail(walk))

RECURSIVE BilledCost(_, _)
BilledCost(walk, tiers) ==
    IF walk = <<>>
    THEN 0
    ELSE (IF Head(walk).billed THEN Head(walk).band_size * Head(tiers).rate_per_gb_month
                               ELSE 0)
         + BilledCost(Tail(walk), Tail(tiers))

\* C29: cost_from_tiers never bills more volume than it was given: for any gb
\* and any bands, ill-formed ones included, the quantities billed are not
\* negative and sum to at most max(gb, 0), and the remaining volume never
\* grows from one band to the next.
C29_NeverOverbills ==
    Applied("cost_from_tiers") =>
        LET walk == band_sizes(call.gb, call.tiers)
        IN  /\ ret = Some(BilledCost(walk, call.tiers))
            /\ \A i \in 1..Len(walk) : walk[i].billed => walk[i].band_size >= 0
            /\ BilledVolume(walk) <= (IF call.gb > 0 THEN call.gb ELSE 0)
            /\ \A i \in 1..Len(walk) :
                   walk[i].remaining <= (IF i = 1 THEN call.gb ELSE walk[i - 1].remaining)

\* On bands that each end above their start the walk never bills more than
\* it was given.
C29_HoldsOnForwardBands ==
    (Applied("cost_from_tiers")
       /\ \A i \in 1..Len(call.tiers) : call.tiers[i].from_gb <= call.tiers[i].to_gb) =>
        C29_NeverOverbills

\* The result is the cost of the quantities the walk billed.
C29_WalkIsCost ==
    Applied("cost_from_tiers") =>
        ret = Some(BilledCost(band_sizes(call.gb, call.tiers), call.tiers))

\* C30: no negative price is ever reported: in every PricingResult the four
\* resolve functions return, rate_per_gb_month, when set, and the rate of every
\* tier band are >= 0.
C30_NoNegativePrice ==
    \A r \in ScanResults :
        /\ r.rate_per_gb_month # None => r.rate_per_gb_month[1] >= 0
        /\ \A i \in 1..Len(r.tiers) : r.tiers[i].rate_per_gb_month >= 0

\* Every reported price is >= 0 or is the NaN an S3 scan let through.
C30_NegativeSkipped ==
    \A r \in ScanResults :
        /\ r.rate_per_gb_month # None =>
               (r.rate_per_gb_month[1] >= 0 \/ r.rate_per_gb_month[1] = NaN)
        /\ \A i \in 1..Len(r.tiers) :
               r.tiers[i].rate_per_gb_month >= 0 \/ r.tiers[i].rate_per_gb_month = NaN

\* The Backup scans report no NaN.
C30_BackupNeverNaN ==
    (Applied("resolve_aws_backup_storage_public") \/ Applied("resolve_aws_backup_storage")) =>
        \A r \in ScanResults :
            r.rate_per_gb_month # None => r.rate_per_gb_month[1] >= 0

(***************************************************************************)
(* The pricing cache                                                       *)
(***************************************************************************)
\* the cache key of a request to one of the two pricing endpoints
RequestKey(c) ==
    _key(IF c.fn = "get_aws_backup_pricing" THEN <<"A","W","S"," ","B","a","c","k","u","p">>
         ELSE <<"A","m","a","z","o","n"," ","S","3">>,
         c.region, c.currency, c.storageClass)

\* this step is one request to a pricing endpoint
RequestStep ==
    /\ call'.fn \in {"get_aws_backup_pricing", "get_s3_storage_pricing"}
    /\ now' = now

\* ... whose resolver call returned an error / a price
ErrorStep ==
    /\ RequestStep
    /\ resolved' # <<>>
    /\ ~resolved'[1].outcome.raised
    /\ resolved'[1].outcome.result.error # <<>>

SuccessStep ==
    /\ RequestStep
    /\ resolved' # <<>>
    /\ ~resolved'[1].outcome.raised
    /\ resolved'[1].outcome.result.error = <<>>

\* the step leaves the entries of every key but k as they were
OtherKeysUnchanged(k) ==
    /\ DOMAIN _store' \ {k} = DOMAIN _store \ {k}
    /\ \A x \in DOMAIN _store \ {k} : _store'[x] = _store[x]

\* C24 as stated: a request whose resolution returned an error leaves the
\* cache unchanged.
C24_ErrorLeavesCacheUnchanged ==
    [][ErrorStep => _store' = _store]_vars

\* C24, amended: a request whose resolution returned an error stores nothing:
\* afterwards the cache has no entry under the request's key and the entries
\* of the other keys are as before, so that the next identical request, which
\* finds no entry, invokes the resolver again; a successful resolution is
\* stored under the request's key with the time of the request; and a request
\* without refresh that finds an entry no older than the TTL is answered with
\* from_cache true and the stored data, without invoking the resolver and
\* without changing the cache.
C24_OnlySuccessCached ==
    [][RequestStep =>
        LET k == RequestKey(call') IN
        /\ ErrorStep =>
              /\ k \notin DOMAIN _store'
              /\ OtherKeysUnchanged(k)
        /\ k \notin DOMAIN _store => resolved' # <<>>
        /\ SuccessStep =>
              /\ k \in DOMAIN _store'
              /\ _store'[k].cached_at = now
              /\ _store'[k].val.rate_per_gb_month
                    = resolved'[1].outcome.result.rate_per_gb_month
              /\ \A f \in DOMAIN _store'[k].val : ret'[1][f] = _store'[k].val[f]
              /\ OtherKeysUnchanged(k)
        /\ (/\ ~call'.refresh
            /\ k \in DOMAIN _store
            /\ now - _store[k].cached_at <= CACHE_TTL) =>
              /\ resolved' = <<>>
              /\ ret'[1].from_cache = TRUE
              /\ ret'[1].cached_at = _store[k].cached_at
              /\ \A f \in DOMAIN _store[k].val : ret'[1][f] = _store[k].val[f]
              /\ _store' = _store
       ]_vars

\* a Backup request has just had an error from the resolver while the cache
\* holds the entry a successful S3 resolution stored
C24_Witness ==
    /\ call.fn = "get_aws_backup_pricing"
    /\ call.region = rUsEast1
    /\ resolved # <<>>
    /\ ~resolved[1].outcome.raised
    /\ resolved[1].outcome.result.error # <<>>
    /\ \E k \in DOMAIN _store :
          /\ "tiers" \in DOMAIN _store[k].val
          /\ _store[k].val.tiers # <<>>

\* this step is a request with refresh=true that was answered with a response
RefreshStep ==
    /\ RequestStep
    /\ call'.refresh
    /\ "raised" \notin DOMAIN ret'[1]

\* C25 as stated: a request with refresh=true invokes the resolver, its
\* response has from_cache false, and the entries of all other keys are left
\* unchanged.
C25_RefreshResponseNotFromCache ==
    [][RefreshStep =>
        /\ resolved' # <<>>
        /\ "from_cache" \in DOMAIN ret'[1]
        /\ ret'[1].from_cache = FALSE
        /\ OtherKeysUnchanged(RequestKey(call'))
       ]_vars

\* C25, amended: a request with refresh=true is never answered from the
\* cache: the resolver is invoked with the request's arguments whatever the
\* cache held, the entry under the request's key afterwards is the one this
\* request stored or none, the entries of all other keys are left unchanged,
\* and the response has from_cache false when the resolution succeeded and no
\* from_cache field, but the error, when it failed.
C25_RefreshBypassesCache ==
    [][(RequestStep /\ call'.refresh) =>
        LET k == RequestKey(call') IN
        /\ resolved' # <<>>
        /\ resolved'[1].region_code = call'.region
        /\ resolved'[1].currency = call'.currency
        /\ resolved'[1].storage_class = call'.storageClass
        /\ OtherKeysUnchanged(k)
        /\ k \in DOMAIN _store' =>
              /\ SuccessStep
              /\ _store'[k].cached_at = now
              /\ \A f \in DOMAIN _store'[k].val : ret'[1][f] = _store'[k].val[f]
        /\ SuccessStep =>
              /\ "from_cache" \in DOMAIN ret'[1]
              /\ ret'[1].from_cache = FALSE
              /\ "error" \notin DOMAIN ret'[1]
        /\ ErrorStep =>
              /\ "from_cache" \notin DOMAIN ret'[1]
              /\ ret'[1].error = resolved'[1].outcome.result.error
       ]_vars

\* a request with refresh=true has just stored a fresh price while the cache
\* holds the entry of another key
C25_Witness ==
    /\ call.fn \in {"get_aws_backup_pricing", "get_s3_storage_pricing"}
    /\ call.refresh
    /\ "from_cache" \in DOMAIN ret[1]
    /\ ~ret[1].from_cache
    /\ RequestKey(call) \in DOMAIN _store
    /\ DOMAIN _store \ {RequestKey(call)} # {}

\* this step is one call of the cache method fn
MethodStep(fn) == call'.fn = fn /\ now' = now

\* C26: TTLCache.get returns the entry (value, cached_at) the store holds under
\* the key, which is the one the most recent set for the key wrote at its
\* clock reading, unless an invalidate or an expiry removed it since, if the
\* entry is not older than the TTL, otherwise None; it never returns an entry
\* older than the TTL, it removes an expired entry it finds, and no get, set or
\* invalidate touches the entry of another key, nor does the passing of time
\* change the store.
C26_GetWithinTtl ==
    [][/\ MethodStep("get") =>
            LET k == call'.k
                out == ret'[1]
                held == k \in DOMAIN _store
                fresh == held /\ now - _store[k].cached_at <= CACHE_TTL
            IN /\ fresh => out = Some(_store[k]) /\ _store' = _store
               /\ ~fresh => out = None /\ k \notin DOMAIN _store'
               /\ out # None => now - out[1].cached_at <= CACHE_TTL
               /\ OtherKeysUnchanged(k)
       /\ MethodStep("set") =>
            /\ _store'[call'.k] = [val |-> call'.value, cached_at |-> now]
            /\ OtherKeysUnchanged(call'.k)
       /\ MethodStep("invalidate") =>
            /\ call'.k \notin DOMAIN _store'
            /\ ret'[1] = (call'.k \in DOMAIN _store)
            /\ OtherKeysUnchanged(call'.k)
       /\ now' # now => _store' = _store
      ]_vars

\* get has just returned an entry that is as old as the TTL allows, while the
\* store holds an older entry under another key
C26_Witness ==
    /\ call.fn = "get"
    /\ ret[1] # None
    /\ now - ret[1][1].cached_at = CACHE_TTL
    /\ \E x \in DOMAIN _store \ {call.k} : now - _store[x].cached_at > CACHE_TTL

(***************************************************************************)
(* The cache under concurrent callers                                      *)
(***************************************************************************)
\* C27: whatever the interleaving of the callers' dictionary operations on one
\* key, no get, set or invalidate fails.
C27_NoOperationFails ==
    \A t \in DOMAIN threads : threads[t].pc # "failed"

\* what holds of the store under every interleaving: an entry is a value and a
\* clock reading that one set wrote, never a mixture
C27_EntriesWhole ==
    \A k \in DOMAIN _store :
        /\ k = SharedKey
        /\ _store[k].val \in 1..MaxThreads
        /\ _store[k].cached_at \in 0..now

(***************************************************************************)
(* The conversation                                                        *)
(***************************************************************************)
\* this step is one chat_turn call
TurnStep == call'.fn = "chat_turn"

\* C28: every chat_turn call appends exactly two messages to the session, a
\* user message followed by an assistant message, and returns the content of
\* the last message as its reply.
C28_EveryTurnAppendsTwo ==
    [][TurnStep =>
        /\ Len(session') = Len(session) + 2
        /\ SubSeq(session', 1, Len(session)) = session
        /\ session'[Len(session) + 1].role = "user"
        /\ session'[Len(session) + 2].role = "assistant"
        /\ ~ret'[1].raised
        /\ ret'[1].reply = session'[Len(session')].content
       ]_vars

\* what holds of every call that returns, on the four paths (key missing,
\* package missing, API call raising, API call succeeding)
C28_ReturningTurnAppendsTwo ==
    [][(TurnStep /\ ~ret'[1].raised) =>
        /\ Len(session') = Len(session) + 2
        /\ SubSeq(session', 1, Len(session)) = session
        /\ session'[Len(session) + 1].role = "user"
        /\ session'[Len(session) + 2].role = "assistant"
        /\ ret'[1].reply = session'[Len(session')].content
       ]_vars

\* ... and of the session after any sequence of calls
C28_Alternates ==
    /\ Len(session) % 2 = 0
    /\ \A i \in DOMAIN session :
          session[i].role = (IF i % 2 = 1 THEN "user" ELSE "assistant")
====
